---- MODULE Spec2Model ----
(***************************************************************************)
(* Voxtext: the transcription job pipeline of src/voxtext_win.py.          *)
(*                                                                         *)
(* TranscriptionWorker.run (lines 106-229) runs on its own thread; the     *)
(* caller thread may call TranscriptionWorker.cancel (lines 308-309) at    *)
(* any moment.  The two threads share one attribute, self.cancelled, which *)
(* the worker reads and the caller writes without a lock, so every read of *)
(* the flag and every statement guarded by it is a separate step here and  *)
(* cancel() may fall between any two of them.                              *)
(*                                                                         *)
(* pc names the line of run() that executes next ("L134_in" and the like   *)
(* are the inside of a blocking call).                                     *)
(***************************************************************************)
EXTENDS Integers, Sequences, FiniteSets

(* ------------------------------ bounds -------------------------------- *)

\* longest arbitrary output_formats list (any ids, any order, repeats allowed)
MaxListLen == 2
\* number of workers the process constructs one after the other
MaxJobs == 2
\* longest list of segments of a transcription result
MaxSegments == 2
\* number of workers the window starts
MaxWorkers == 3

(* --------------------------- request values --------------------------- *)

\* the order of the six `if '<fmt>' in self.output_formats` blocks of run()
Canonical == <<"txt", "srt", "vtt", "html", "md", "json">>

NumBlocks == 6

Supported == {Canonical[i] : i \in 1..NumBlocks}

\* the identifiers arbitrary lists are built from; "pdf" is one the worker has
\* no block for
FormatIds == {"txt", "json", "pdf"}

RECURSIVE SeqsUpTo(_, _)
SeqsUpTo(S, n) ==
    IF n = 0 THEN {<<>>}
    ELSE LET shorter == SeqsUpTo(S, n - 1)
         IN  shorter \cup {Append(s, x) : s \in shorter, x \in S}

Range(s) == {s[i] : i \in 1..Len(s)}

RECURSIVE InCanonicalOrder(_, _)
InCanonicalOrder(S, i) ==
    IF i > NumBlocks THEN <<>>
    ELSE IF Canonical[i] \in S THEN <<Canonical[i]>> \o InCanonicalOrder(S, i + 1)
    ELSE InCanonicalOrder(S, i + 1)

Reverse(s) == [i \in 1..Len(s) |-> s[Len(s) + 1 - i]]

\* the lists start_transcription builds from the checked boxes (lines 926-929
\* guarantee non-empty, distinct, supported), their reversals, and every short
\* list a direct user of the worker class may pass
Requests ==
    {InCanonicalOrder(S, 1) : S \in SUBSET Supported}
        \cup {Reverse(InCanonicalOrder(S, 1)) : S \in SUBSET Supported}
        \cup SeqsUpTo(FormatIds, MaxListLen)

\* the requests of the workers constructed after the first one
LaterRequests == { << "txt" >>, << "json", "srt" >>, << >> }

(* ----------------------------- exceptions ----------------------------- *)

NoExc == [type |-> "none", text |-> ""]

CertFailure == [type |-> "URLError", text |-> "CERTIFICATE_VERIFY_FAILED"]

LoadErrors ==
    { CertFailure,
      [type |-> "URLError", text |-> "connection refused"],
      [type |-> "FileNotFoundError", text |-> "No such file or directory: 'ffmpeg'"],
      [type |-> "FileNotFoundError", text |-> "No such file or directory: 'out'"],
      [type |-> "Exception", text |-> "Failed to load audio: ffmpeg error"],
      [type |-> "Exception", text |-> "out of memory"] }

TranscribeErrors == {e \in LoadErrors : e.type # "URLError"}

\* the decoder is not installed: the error of the attempt to run it
FfmpegMissing ==
    [type |-> "FileNotFoundError", text |-> "No such file or directory: 'ffmpeg'"]

\* the destination directory is gone and the source file is named ffmpeg_demo
OutputPathMissing ==
    [type |-> "FileNotFoundError",
     text |-> "No such file or directory: 'ffmpeg_demo_transcript.txt'"]

WriteErrors ==
    { [type |-> "FileNotFoundError", text |-> "No such file or directory: 'out'"],
      OutputPathMissing,
      [type |-> "Exception", text |-> "Permission denied"] }

ImportErrors == { [type |-> "Exception", text |-> "No module named 'whisper'"] }

\* "CERTIFICATE_VERIFY_FAILED" in str(ssl_error)
MentionsCert(e) == e.text = "CERTIFICATE_VERIFY_FAILED"

\* 'ffmpeg' in str(e).lower()
MentionsFfmpeg(e) ==
    e.text \in { "No such file or directory: 'ffmpeg'",
                 "No such file or directory: 'ffmpeg_demo_transcript.txt'",
                 "Failed to load audio: ffmpeg error" }

FfmpegHelp == "FFmpeg not found!"

(* ------------------------------- state -------------------------------- *)

VARIABLES
    pc,               \* next line of run(), "done" once run() has returned
    cancelled,        \* self.cancelled
    output_formats,   \* self.output_formats
    events,           \* signals emitted by this worker, in order
    written,          \* formats whose file this job has written, in order
    created_files,    \* the local list created_files
    num_formats,      \* the local num_formats
    current_progress, \* the local current_progress, times ProgressDen
    blk,              \* which of the six format blocks run() is in
    exc,              \* the exception in flight or last handled
    excFrom,          \* the call that raised it
    suppressed,       \* an except clause read self.cancelled as True
    httpsContext,     \* ssl._create_default_https_context (process-wide)
    loadCalls,        \* calls of whisper.load_model by this job
    transcribeCalls,  \* calls of model.transcribe by this job
    jobs,             \* workers constructed so far
    pcAtCancel,       \* pc when the flag of this worker was first set
    eventsAtCancel,   \* Len(events) at that moment
    writtenAtCancel,  \* Len(written) at that moment
    callsAtCancel,    \* loadCalls + transcribeCalls at that moment
    certFailed        \* the first load_model of this job raised a certificate failure

\* the export functions of the worker, followed one call at a time
VARIABLES
    op,               \* the function called: "timestamp", "srt", "vtt" ("none": no call)
    seconds,          \* _format_timestamp: the parameter seconds
    use_comma,        \* _format_timestamp: the parameter use_comma
    returned,         \* _format_timestamp: the string returned
    result,           \* result['segments'] of the transcription
    result_text,      \* result['text'] of the transcription
    lms_settings,     \* self.lms_settings
    at,               \* next line of the function called, "end" once it has returned
    file,             \* the characters written to the output file so far
    seg_index,        \* the segment the loop of the exporter is at
    cue_settings      \* _write_vtt: the local cue_settings

exporter == << op, seconds, use_comma, returned, result, result_text, lms_settings,
               at, file, seg_index, cue_settings >>

\* the main window and the worker threads it starts
VARIABLES
    selected_file,    \* self.selected_file: "none" or "file"
    transcribe_btn,   \* transcribe_btn.isEnabled()
    window_worker,    \* self.worker: the number of the worker, 0 for None
    started,          \* workers the window has constructed and started
    thread,           \* per worker: where its thread is
    flag,             \* per worker: its cancelled flag
    queued,           \* signals emitted by workers, not yet delivered to the window
    gui,              \* "idle", or "waiting" while clear_or_cancel is in wait()
    handled,          \* workers whose terminal event on_finished/on_error has handled
    cancel_returned   \* workers that clear_or_cancel has cancelled and returned from

window == << selected_file, transcribe_btn, window_worker, started, thread, flag,
             queued, gui, handled, cancel_returned >>

vars == << pc, cancelled, output_formats, events, written, created_files,
           num_formats, current_progress, blk, exc, excFrom, suppressed,
           httpsContext, loadCalls, transcribeCalls, jobs,
           pcAtCancel, eventsAtCancel, writtenAtCancel, callsAtCancel, certFailed,
           exporter, window >>

jobLocals == << written, created_files, num_formats, current_progress, blk >>
history == << pcAtCancel, eventsAtCancel, writtenAtCancel, callsAtCancel >>

(* ------------------------------ signals ------------------------------- *)

Progress(p) == [kind |-> "progress", pct |-> p, files |-> <<>>, msg |-> ""]
Finished(fs) == [kind |-> "finished", pct |-> -1, files |-> fs, msg |-> ""]
Error(m) == [kind |-> "error", pct |-> -1, files |-> <<>>, msg |-> m]

Emit(ev) == events' = Append(events, ev)

(* --------------------- construction and cancel() ---------------------- *)

\* VoxtextWindow.__init__ with Whisper installed: no file, no worker, the
\* Transcribe button enabled
NewWindow ==
    /\ selected_file = "none"
    /\ transcribe_btn = TRUE
    /\ window_worker = 0
    /\ started = 0
    /\ thread = [w \in 1..MaxWorkers |-> "unborn"]
    /\ flag = [w \in 1..MaxWorkers |-> FALSE]
    /\ queued = <<>>
    /\ gui = "idle"
    /\ handled = {}
    /\ cancel_returned = {}

\* no export function is being followed
NoExport ==
    /\ op = "none"
    /\ seconds = [sec |-> 0, frac |-> 0]
    /\ use_comma = TRUE
    /\ returned = <<>>
    /\ result = <<>>
    /\ result_text = <<>>
    /\ lms_settings = [enabled |-> FALSE, cue_settings |-> <<>>, css |-> <<>>]
    /\ at = "end"
    /\ file = <<>>
    /\ seg_index = 0
    /\ cue_settings = <<>>

\* TranscriptionWorker.__init__ (the fields this model follows)
Construct(req) ==
    /\ output_formats' = req
    /\ cancelled' = FALSE
    /\ pc' = "L108"
    /\ events' = <<>>
    /\ written' = <<>>
    /\ created_files' = <<>>
    /\ num_formats' = 0
    /\ current_progress' = 0
    /\ blk' = 0
    /\ exc' = NoExc
    /\ excFrom' = "none"
    /\ suppressed' = FALSE
    /\ loadCalls' = 0
    /\ transcribeCalls' = 0
    /\ pcAtCancel' = "never"
    /\ eventsAtCancel' = 0
    /\ writtenAtCancel' = 0
    /\ callsAtCancel' = 0
    /\ certFailed' = FALSE

Init ==
    /\ \E req \in Requests :
         /\ output_formats = req
         /\ cancelled = FALSE
         /\ pc = "L108"
         /\ events = <<>>
         /\ written = <<>>
         /\ created_files = <<>>
         /\ num_formats = 0
         /\ current_progress = 0
         /\ blk = 0
         /\ exc = NoExc
         /\ excFrom = "none"
         /\ suppressed = FALSE
         /\ loadCalls = 0
         /\ transcribeCalls = 0
         /\ pcAtCancel = "never"
         /\ eventsAtCancel = 0
         /\ writtenAtCancel = 0
         /\ callsAtCancel = 0
         /\ certFailed = FALSE
    /\ httpsContext = "verified"
    /\ jobs = 1
    /\ NoExport
    /\ NewWindow

\* a later job: the caller builds a new worker once the previous run() is over
NewJob ==
    /\ pc = "done"
    /\ jobs < MaxJobs
    /\ jobs' = jobs + 1
    /\ \E req \in LaterRequests : Construct(req)
    /\ UNCHANGED << httpsContext, exporter, window >>

\* faulty variant of Cancel: the flag is toggled instead of set
CancelToggles ==
    /\ cancelled' = ~cancelled
    /\ pcAtCancel' = pc
    /\ eventsAtCancel' = Len(events)
    /\ writtenAtCancel' = Len(written)
    /\ callsAtCancel' = loadCalls + transcribeCalls
    /\ UNCHANGED << pc, output_formats, events, jobLocals, exc, excFrom, suppressed,
                    httpsContext, loadCalls, transcribeCalls, jobs, certFailed,
                    exporter, window >>

\* TranscriptionWorker.cancel, called from the caller thread
Cancel ==
    /\ cancelled' = TRUE
    /\ IF cancelled
       THEN UNCHANGED history
       ELSE /\ pcAtCancel' = pc
            /\ eventsAtCancel' = Len(events)
            /\ writtenAtCancel' = Len(written)
            /\ callsAtCancel' = loadCalls + transcribeCalls
    /\ UNCHANGED << pc, output_formats, events, jobLocals, exc, excFrom, suppressed,
                    httpsContext, loadCalls, transcribeCalls, jobs, certFailed,
                    exporter, window >>

(* --------------------------- run(): helpers --------------------------- *)

\* what no statement of run() touches
env == << cancelled, output_formats, jobs, httpsContext, history, certFailed,
         exporter, window >>

\* an exception leaves the try body: control is at the except clauses
Raise(e, from) ==
    /\ exc' = e
    /\ excFrom' = from
    /\ pc' = "except"

\* `if self.cancelled: return`
ReturnIfCancelled(next) == pc' = IF cancelled THEN "done" ELSE next

\* progress_per_format = 15 / num_formats if num_formats > 0 else 15.
\* current_progress is kept multiplied by this denominator, which makes the
\* per-format increment the integer 15.  For num_formats <= 6 the quotients
\* 15, 7.5, 5, 3.75, 3, 2.5 are exact binary floats, so the float sums of
\* the code equal these exact sums.
ProgressDen(n) == IF n > 0 THEN n ELSE 1

\* faulty variant of IntProgress: round(current_progress)
IntProgressRounds(cp, n) == (2 * cp + ProgressDen(n)) \div (2 * ProgressDen(n))

\* int(current_progress)
IntProgress(cp, n) == cp \div ProgressDen(n)

\* every block names its file with the same extension as the other blocks
ExtensionAlwaysTxt(fmt) == "txt"

\* the extension in the f-string of each block (lines 155, 164, 173, 182, 191, 200)
Extension(fmt) ==
    CASE fmt = "txt"  -> "txt"
      [] fmt = "srt"  -> "srt"
      [] fmt = "vtt"  -> "vtt"
      [] fmt = "html" -> "html"
      [] fmt = "md"   -> "md"
      [] fmt = "json" -> "json"

\* self.output_dir / f"{base_path}_transcript.<extension>": the directory and
\* the stem (line 146) are those of the job, the same in every block
ArtifactPath(fmt) ==
    [dir |-> "output_dir", name |-> << "base_path", "_transcript", ".", Extension(fmt) >>]

\* the block after block b, or the final check
AfterBlock(b) == IF b = NumBlocks THEN "L208" ELSE "L152"

(* ------------------------ run(): model loading ------------------------ *)

\* lines 108-110: the imports inside the try
ImportOk ==
    /\ pc = "L108"
    /\ pc' = "L112"
    /\ UNCHANGED << env, events, jobLocals, exc, excFrom, suppressed, loadCalls,
                    transcribeCalls >>

ImportRaise ==
    /\ pc = "L108"
    /\ \E e \in ImportErrors : Raise(e, "import")
    /\ UNCHANGED << env, events, jobLocals, suppressed, loadCalls, transcribeCalls >>

\* the check of lines 112-113 left out
CheckBeforeLoadMissing ==
    /\ pc = "L112"
    /\ pc' = "L116"
    /\ UNCHANGED << env, events, jobLocals, exc, excFrom, suppressed, loadCalls,
                    transcribeCalls >>

\* lines 112-113
CheckBeforeLoad ==
    /\ pc = "L112"
    /\ ReturnIfCancelled("L116")
    /\ UNCHANGED << env, events, jobLocals, exc, excFrom, suppressed, loadCalls,
                    transcribeCalls >>

\* line 116
EmitLoading ==
    /\ pc = "L116"
    /\ Emit(Progress(5))
    /\ pc' = "L119"
    /\ UNCHANGED << env, jobLocals, exc, excFrom, suppressed, loadCalls,
                    transcribeCalls >>

\* line 119: whisper.load_model is entered
LoadModelCall ==
    /\ pc = "L119"
    /\ loadCalls' = loadCalls + 1
    /\ pc' = "L119_in"
    /\ UNCHANGED << env, events, jobLocals, exc, excFrom, suppressed, transcribeCalls >>

LoadModelReturn ==
    /\ pc = "L119_in"
    /\ pc' = "L127"
    /\ UNCHANGED << env, events, jobLocals, exc, excFrom, suppressed, loadCalls,
                    transcribeCalls >>

\* line 120: only a URLError is caught by the inner except clause
\* a failed load_model is passed over and run() goes on without a model
LoadModelRaiseIgnored ==
    /\ pc = "L119_in"
    /\ \E e \in LoadErrors :
         /\ exc' = e
         /\ excFrom' = "load"
         /\ pc' = "L127"
         /\ certFailed' = (e.type = "URLError" /\ MentionsCert(e))
    /\ UNCHANGED << cancelled, output_formats, jobs, httpsContext, history, events,
                    jobLocals, suppressed, loadCalls, transcribeCalls, exporter,
                    window >>

LoadModelRaise ==
    /\ pc = "L119_in"
    /\ \E e \in LoadErrors :
         /\ exc' = e
         /\ excFrom' = "load"
         /\ pc' = IF e.type = "URLError" THEN "L121" ELSE "except"
         /\ certFailed' = (e.type = "URLError" /\ MentionsCert(e))
    /\ UNCHANGED << cancelled, output_formats, jobs, httpsContext, history, events,
                    jobLocals, suppressed, loadCalls, transcribeCalls, exporter,
                    window >>

\* lines 121, 124-125: retry only on a certificate failure, else re-raise
CertTest ==
    /\ pc = "L121"
    /\ pc' = IF MentionsCert(exc) THEN "L122" ELSE "except"
    /\ UNCHANGED << env, events, jobLocals, exc, excFrom, suppressed, loadCalls,
                    transcribeCalls >>

\* line 122: ssl._create_default_https_context = ssl._create_unverified_context
RelaxVerification ==
    /\ pc = "L122"
    /\ httpsContext' = "unverified"
    /\ pc' = "L123"
    /\ UNCHANGED << cancelled, output_formats, jobs, history, certFailed, events,
                    jobLocals, exc, excFrom, suppressed, loadCalls, transcribeCalls,
                    exporter, window >>

\* line 123: the second whisper.load_model
RetryCall ==
    /\ pc = "L123"
    /\ loadCalls' = loadCalls + 1
    /\ pc' = "L123_in"
    /\ UNCHANGED << env, events, jobLocals, exc, excFrom, suppressed, transcribeCalls >>

RetryReturn ==
    /\ pc = "L123_in"
    /\ exc' = NoExc
    /\ excFrom' = "none"
    /\ pc' = "L127"
    /\ UNCHANGED << env, events, jobLocals, suppressed, loadCalls, transcribeCalls >>

\* faulty variant of RetryRaise: a certificate failure of the retry is retried
RetryRaiseRetries ==
    /\ pc = "L123_in"
    /\ \E e \in LoadErrors :
         /\ exc' = e
         /\ excFrom' = "retry"
         /\ pc' = IF MentionsCert(e) THEN "L123" ELSE "except"
    /\ UNCHANGED << env, events, jobLocals, suppressed, loadCalls, transcribeCalls >>

\* raised inside the inner except clause: only the outer clauses can catch it
RetryRaise ==
    /\ pc = "L123_in"
    /\ \E e \in LoadErrors : Raise(e, "retry")
    /\ UNCHANGED << env, events, jobLocals, suppressed, loadCalls, transcribeCalls >>

\* faulty variant of CheckAfterLoad: the check of lines 127-128 left out
CheckAfterLoadMissing ==
    /\ pc = "L127"
    /\ pc' = "L130"
    /\ UNCHANGED << env, events, jobLocals, exc, excFrom, suppressed, loadCalls,
                    transcribeCalls >>

\* lines 127-128
CheckAfterLoad ==
    /\ pc = "L127"
    /\ ReturnIfCancelled("L130")
    /\ UNCHANGED << env, events, jobLocals, exc, excFrom, suppressed, loadCalls,
                    transcribeCalls >>

\* line 130
EmitLoaded ==
    /\ pc = "L130"
    /\ Emit(Progress(10))
    /\ pc' = "L133"
    /\ UNCHANGED << env, jobLocals, exc, excFrom, suppressed, loadCalls,
                    transcribeCalls >>

(* ------------------------- run(): inference --------------------------- *)

\* line 133
EmitTranscribing ==
    /\ pc = "L133"
    /\ Emit(Progress(20))
    /\ pc' = "L134"
    /\ UNCHANGED << env, jobLocals, exc, excFrom, suppressed, loadCalls,
                    transcribeCalls >>

\* lines 134-138: model.transcribe is entered
TranscribeCall ==
    /\ pc = "L134"
    /\ transcribeCalls' = transcribeCalls + 1
    /\ pc' = "L134_in"
    /\ UNCHANGED << env, events, jobLocals, exc, excFrom, suppressed, loadCalls >>

TranscribeReturn ==
    /\ pc = "L134_in"
    /\ pc' = "L140"
    /\ UNCHANGED << env, events, jobLocals, exc, excFrom, suppressed, loadCalls,
                    transcribeCalls >>

\* faulty variant of TranscribeRaise: a failed inference is attempted again
TranscribeRaiseRetries ==
    /\ pc = "L134_in"
    /\ \E e \in TranscribeErrors :
         /\ exc' = e
         /\ excFrom' = "transcribe"
         /\ pc' = IF transcribeCalls < 2 THEN "L134" ELSE "except"
    /\ UNCHANGED << env, events, jobLocals, suppressed, loadCalls, transcribeCalls >>

TranscribeRaise ==
    /\ pc = "L134_in"
    /\ \E e \in TranscribeErrors : Raise(e, "transcribe")
    /\ UNCHANGED << env, events, jobLocals, suppressed, loadCalls, transcribeCalls >>

\* faulty variant of CheckAfterTranscribe: the check of lines 140-141 left out
CheckAfterTranscribeMissing ==
    /\ pc = "L140"
    /\ pc' = "L143"
    /\ UNCHANGED << env, events, jobLocals, exc, excFrom, suppressed, loadCalls,
                    transcribeCalls >>

\* lines 140-141
CheckAfterTranscribe ==
    /\ pc = "L140"
    /\ ReturnIfCancelled("L143")
    /\ UNCHANGED << env, events, jobLocals, exc, excFrom, suppressed, loadCalls,
                    transcribeCalls >>

\* line 143
EmitWriting ==
    /\ pc = "L143"
    /\ Emit(Progress(80))
    /\ pc' = "L146"
    /\ UNCHANGED << env, jobLocals, exc, excFrom, suppressed, loadCalls,
                    transcribeCalls >>

(* ---------------------- run(): writing outputs ------------------------ *)

\* the increment computed as 15 / num_formats without the test for zero
SetupOutputsDivides ==
    /\ pc = "L146"
    /\ IF Len(output_formats) = 0
       THEN /\ Raise([type |-> "Exception", text |-> "division by zero"], "setup")
            /\ UNCHANGED << created_files, num_formats, current_progress, blk >>
       ELSE /\ created_files' = <<>>
            /\ num_formats' = Len(output_formats)
            /\ current_progress' = 80 * ProgressDen(Len(output_formats))
            /\ blk' = 1
            /\ pc' = "L152"
            /\ UNCHANGED << exc, excFrom >>
    /\ UNCHANGED << env, events, written, suppressed, loadCalls, transcribeCalls >>

\* num_formats counts the formats the worker has a block for, each once
SetupOutputsCountsSupported ==
    /\ pc = "L146"
    /\ created_files' = <<>>
    /\ num_formats' = Cardinality(Range(output_formats) \cap Supported)
    /\ current_progress' =
           80 * ProgressDen(Cardinality(Range(output_formats) \cap Supported))
    /\ blk' = 1
    /\ pc' = "L152"
    /\ UNCHANGED << env, events, written, exc, excFrom, suppressed, loadCalls,
                    transcribeCalls >>

\* lines 146-150
SetupOutputs ==
    /\ pc = "L146"
    /\ created_files' = <<>>
    /\ num_formats' = Len(output_formats)
    /\ current_progress' = 80 * ProgressDen(Len(output_formats))
    /\ blk' = 1
    /\ pc' = "L152"
    /\ UNCHANGED << env, events, written, exc, excFrom, suppressed, loadCalls,
                    transcribeCalls >>

\* faulty variant of FormatTest: the json block (lines 198-206) is missing
FormatTestWithoutJson ==
    /\ pc = "L152"
    /\ IF Canonical[blk] \in Range(output_formats) /\ Canonical[blk] # "json"
       THEN /\ pc' = "L153"
            /\ blk' = blk
       ELSE /\ pc' = AfterBlock(blk)
            /\ blk' = blk + 1
    /\ UNCHANGED << env, events, written, created_files, num_formats,
                    current_progress, exc, excFrom, suppressed, loadCalls,
                    transcribeCalls >>

\* lines 152, 162, 171, 180, 189, 198: `if '<fmt>' in self.output_formats`
FormatTest ==
    /\ pc = "L152"
    /\ IF Canonical[blk] \in Range(output_formats)
       THEN /\ pc' = "L153"
            /\ blk' = blk
       ELSE /\ pc' = AfterBlock(blk)
            /\ blk' = blk + 1
    /\ UNCHANGED << env, events, written, created_files, num_formats,
                    current_progress, exc, excFrom, suppressed, loadCalls,
                    transcribeCalls >>

\* faulty variant of CheckBeforeWrite: the per-format check left out
CheckBeforeWriteMissing ==
    /\ pc = "L153"
    /\ pc' = "L155"
    /\ UNCHANGED << env, events, jobLocals, exc, excFrom, suppressed, loadCalls,
                    transcribeCalls >>

\* lines 153-154 (and 163, 172, 181, 190, 199)
CheckBeforeWrite ==
    /\ pc = "L153"
    /\ ReturnIfCancelled("L155")
    /\ UNCHANGED << env, events, jobLocals, exc, excFrom, suppressed, loadCalls,
                    transcribeCalls >>

\* faulty variant of WriteFile: the formats are taken in the order of the request
WriteFileRequestOrder ==
    /\ pc = "L155"
    /\ written' = Append(written, output_formats[Len(written) + 1])
    /\ pc' = "L158"
    /\ UNCHANGED << env, events, created_files, num_formats, current_progress, blk,
                    exc, excFrom, suppressed, loadCalls, transcribeCalls >>

\* the block goes on to its progress event with the file not written
WriteFileLeftOut ==
    /\ pc = "L155"
    /\ written' = written
    /\ pc' = "L158"
    /\ UNCHANGED << env, events, created_files, num_formats, current_progress, blk,
                    exc, excFrom, suppressed, loadCalls, transcribeCalls >>

\* lines 155-157 (and 165-166, ..., 201-203): the file of this block is written
WriteFile ==
    /\ pc = "L155"
    /\ written' = Append(written, Canonical[blk])
    /\ pc' = "L158"
    /\ UNCHANGED << env, events, created_files, num_formats, current_progress, blk,
                    exc, excFrom, suppressed, loadCalls, transcribeCalls >>

\* faulty variant of WriteFileRaise: the failed format is skipped and the
\* remaining formats are still exported
WriteFileRaiseContinues ==
    /\ pc = "L155"
    /\ \E e \in WriteErrors :
         /\ exc' = e
         /\ excFrom' = "write"
    /\ blk' = blk + 1
    /\ pc' = AfterBlock(blk)
    /\ UNCHANGED << env, events, written, created_files, num_formats,
                    current_progress, suppressed, loadCalls, transcribeCalls >>

WriteFileRaise ==
    /\ pc = "L155"
    /\ \E e \in WriteErrors : Raise(e, "write")
    /\ UNCHANGED << env, events, jobLocals, suppressed, loadCalls, transcribeCalls >>

\* faulty variant of CreatedProgress: `current_progress = progress_per_format`
\* in place of `+=`
CreatedProgressAssigns ==
    /\ pc = "L158"
    /\ created_files' = Append(created_files, Canonical[blk])
    /\ current_progress' = 15
    /\ Emit(Progress(IntProgress(15, num_formats)))
    /\ blk' = blk + 1
    /\ pc' = AfterBlock(blk)
    /\ UNCHANGED << env, written, num_formats, exc, excFrom, suppressed, loadCalls,
                    transcribeCalls >>

\* lines 158-160 (and 167-169, ..., 204-206)
CreatedProgress ==
    /\ pc = "L158"
    /\ created_files' = Append(created_files, Canonical[blk])
    /\ current_progress' = current_progress + 15
    /\ Emit(Progress(IntProgress(current_progress + 15, num_formats)))
    /\ blk' = blk + 1
    /\ pc' = AfterBlock(blk)
    /\ UNCHANGED << env, written, num_formats, exc, excFrom, suppressed, loadCalls,
                    transcribeCalls >>

\* faulty variant of FinalCheck: the condition of line 208 inverted
FinalCheckInverted ==
    /\ pc = "L208"
    /\ pc' = IF cancelled THEN "L209" ELSE "done"
    /\ UNCHANGED << env, events, jobLocals, exc, excFrom, suppressed, loadCalls,
                    transcribeCalls >>

\* the check of line 208 left out: finished is emitted whatever the flag
FinalCheckMissing ==
    /\ pc = "L208"
    /\ pc' = "L209"
    /\ UNCHANGED << env, events, jobLocals, exc, excFrom, suppressed, loadCalls,
                    transcribeCalls >>

\* line 208
FinalCheck ==
    /\ pc = "L208"
    /\ pc' = IF cancelled THEN "done" ELSE "L209"
    /\ UNCHANGED << env, events, jobLocals, exc, excFrom, suppressed, loadCalls,
                    transcribeCalls >>

\* the worker reports 100 before it emits finished
EmitFinishedAtHundred ==
    /\ pc = "L209"
    /\ events' = events \o << Progress(100), Finished(created_files) >>
    /\ pc' = "done"
    /\ UNCHANGED << env, jobLocals, exc, excFrom, suppressed, loadCalls,
                    transcribeCalls >>

\* line 209
EmitFinished ==
    /\ pc = "L209"
    /\ Emit(Finished(created_files))
    /\ pc' = "done"
    /\ UNCHANGED << env, jobLocals, exc, excFrom, suppressed, loadCalls,
                    transcribeCalls >>

(* ---------------------- run(): the except clauses --------------------- *)

\* the first clause reports the error without reading the flag
ExceptFileNotFoundUnguarded ==
    /\ pc = "except"
    /\ exc.type = "FileNotFoundError"
    /\ pc' = "L213"
    /\ suppressed' = FALSE
    /\ UNCHANGED << env, events, jobLocals, exc, excFrom, loadCalls, transcribeCalls >>

\* lines 211-212: except FileNotFoundError, `if not self.cancelled`
ExceptFileNotFound ==
    /\ pc = "except"
    /\ exc.type = "FileNotFoundError"
    /\ pc' = IF cancelled THEN "done" ELSE "L213"
    /\ suppressed' = cancelled
    /\ UNCHANGED << env, events, jobLocals, exc, excFrom, loadCalls, transcribeCalls >>

\* the text the FileNotFoundError clause reports (lines 213-225)
FileNotFoundMessage(e) == IF MentionsFfmpeg(e) THEN FfmpegHelp ELSE e.text

\* lines 213-226
EmitFileNotFound ==
    /\ pc = "L213"
    /\ Emit(Error(FileNotFoundMessage(exc)))
    /\ pc' = "done"
    /\ UNCHANGED << env, jobLocals, exc, excFrom, suppressed, loadCalls,
                    transcribeCalls >>

\* faulty variant of ExceptException: the exception is swallowed
ExceptExceptionSilent ==
    /\ pc = "except"
    /\ exc.type # "FileNotFoundError"
    /\ pc' = "done"
    /\ suppressed' = cancelled
    /\ UNCHANGED << env, events, jobLocals, exc, excFrom, loadCalls, transcribeCalls >>

\* the second clause catches plain Exception only, not its subclasses
ExceptExceptionNarrow ==
    /\ pc = "except"
    /\ exc.type = "Exception"
    /\ pc' = IF cancelled THEN "done" ELSE "L229"
    /\ suppressed' = cancelled
    /\ UNCHANGED << env, events, jobLocals, exc, excFrom, loadCalls, transcribeCalls >>

\* lines 227-228: except Exception, `if not self.cancelled`
ExceptException ==
    /\ pc = "except"
    /\ exc.type # "FileNotFoundError"
    /\ pc' = IF cancelled THEN "done" ELSE "L229"
    /\ suppressed' = cancelled
    /\ UNCHANGED << env, events, jobLocals, exc, excFrom, loadCalls, transcribeCalls >>

\* line 229
EmitError ==
    /\ pc = "L229"
    /\ Emit(Error(exc.text))
    /\ pc' = "done"
    /\ UNCHANGED << env, jobLocals, exc, excFrom, suppressed, loadCalls,
                    transcribeCalls >>

(* --------------------------- specification ---------------------------- *)

Run ==
    \/ ImportOk \/ ImportRaise
    \/ CheckBeforeLoad \/ EmitLoading
    \/ LoadModelCall \/ LoadModelReturn \/ LoadModelRaise
    \/ CertTest \/ RelaxVerification
    \/ RetryCall \/ RetryReturn \/ RetryRaise
    \/ CheckAfterLoad \/ EmitLoaded
    \/ EmitTranscribing \/ TranscribeCall \/ TranscribeReturn \/ TranscribeRaise
    \/ CheckAfterTranscribe \/ EmitWriting
    \/ SetupOutputs \/ FormatTest \/ CheckBeforeWrite
    \/ WriteFile \/ WriteFileRaise \/ CreatedProgress
    \/ FinalCheck \/ EmitFinished
    \/ ExceptFileNotFound \/ EmitFileNotFound
    \/ ExceptException \/ EmitError

Next == Run \/ Cancel \/ NewJob

Spec == Init /\ [][Next]_vars

\* the thread of run() keeps running, and every blocking call it is in
\* (load_model, its retry, transcribe, a file write) returns or raises
SpecFair == Spec /\ WF_vars(Run)

(* ------------------------- derived quantities ------------------------- *)

TypeOK ==
    /\ cancelled \in BOOLEAN
    /\ output_formats \in Requests
    /\ httpsContext \in {"verified", "unverified"}
    /\ jobs \in 1..MaxJobs
    /\ blk \in 0..(NumBlocks + 1)

Count(kind) == Cardinality({i \in 1..Len(events) : events[i].kind = kind})

NumTerminal == Count("finished") + Count("error")

EventsAfterCancel == SubSeq(events, eventsAtCancel + 1, Len(events))

ProgressAfterCancel ==
    Cardinality({i \in (eventsAtCancel + 1)..Len(events) : events[i].kind = "progress"})

IsPrefix(s, t) == Len(s) <= Len(t) /\ \A i \in 1..Len(s) : s[i] = t[i]

\* the statements of run() up to the call of model.transcribe, on the path
\* that leads to it
PreTranscribe ==
    { "L108", "L112", "L116", "L119", "L119_in", "L121", "L122", "L123", "L123_in",
      "L127", "L130", "L133", "L134" }

\* the reads of self.cancelled that guard a phase or a format write
CheckPoints == { "L112", "L127", "L140", "L153", "L208" }

\* the progress events between a statement before transcribe and the next
\* read of the flag
ProgressBeforeNextCheck(p) ==
    CASE p = "L116" -> << Progress(5) >>
      [] p = "L130" -> << Progress(10), Progress(20) >>
      [] p = "L133" -> << Progress(20) >>
      [] OTHER -> << >>

CallsAfterCancel == loadCalls + transcribeCalls - callsAtCancel

(* ------------------------------- claims ------------------------------- *)

\* C1: a run emits at most one terminal event (finished or error), and a run
\* that has returned without cancel() ever being called has emitted exactly one.
C1_OneTerminalEvent ==
    /\ NumTerminal <= 1
    /\ (pc = "done" /\ pcAtCancel = "never") => NumTerminal = 1

C1_Witness ==
    /\ pc = "done"
    /\ pcAtCancel = "never"
    /\ Count("finished") = 1
    /\ Len(created_files) = 2

\* C2: once the cancelled flag has been set, the worker emits neither finished
\* nor error: every event that follows the setting of the flag is a progress
\* event.
C2_NoTerminalAfterCancel ==
    cancelled => \A i \in (eventsAtCancel + 1)..Len(events) : events[i].kind = "progress"

\* C3 as claimed: with cancel() called before model.transcribe is invoked, the
\* worker emits nothing at all after the flag was set.
C3_NothingAfterEarlyCancel ==
    pcAtCancel \in PreTranscribe => Len(events) = eventsAtCancel

\* C3, amended: with cancel() called before model.transcribe is invoked, the
\* worker emits no terminal event and writes no file, and the only events after
\* the flag was set are the progress events that lie between the statement the
\* worker was at and its next read of the flag (5, or 10 and 20, or 20).
C3_EarlyCancelBounded ==
    pcAtCancel \in PreTranscribe =>
        /\ NumTerminal = 0
        /\ written = <<>>
        /\ IsPrefix(EventsAfterCancel, ProgressBeforeNextCheck(pcAtCancel))

C3_Witness ==
    /\ pcAtCancel = "L130"
    /\ pc = "done"
    /\ transcribeCalls = 1
    /\ EventsAfterCancel = << Progress(10), Progress(20) >>

\* C4 as claimed: after the flag has been set no phase is entered (no model
\* load, inference or output phase starts), no output file is written and no
\* progress event is emitted.
C4_NothingAfterFlag ==
    cancelled =>
        /\ ProgressAfterCancel = 0
        /\ Len(written) = writtenAtCancel
        /\ CallsAfterCancel = 0

\* C4, amended: a flag that is set when one of the checks (before model load,
\* before inference, before writing outputs, before a format write, before
\* finished) runs stops the job there: nothing is called, written or emitted
\* afterwards.  A flag set elsewhere lets the worker run on to its next check:
\* at most two progress events, one file write and two blocking calls (a load
\* and its retry) follow the setting of the flag.
C4_ChecksStopTheJob ==
    cancelled =>
        /\ ProgressAfterCancel <= 2
        /\ Len(written) - writtenAtCancel <= 1
        /\ CallsAfterCancel <= 2
        /\ transcribeCalls <= 1
        /\ pcAtCancel \in CheckPoints =>
               /\ Len(events) = eventsAtCancel
               /\ Len(written) = writtenAtCancel
               /\ CallsAfterCancel = 0
               /\ pc \in {pcAtCancel, "done"}

C4_Witness ==
    /\ pcAtCancel = "L153"
    /\ blk = 2
    /\ pc = "done"
    /\ Len(written) = 1
    /\ Len(output_formats) = 3

\* C5: a cancel() that arrives while the worker is inside model.transcribe does
\* not interrupt the call (the worker leaves it only by its return or its
\* exception), and afterwards the worker emits no progress 80, writes no file
\* and emits no terminal event.
C5_CancelDuringTranscribe ==
    pcAtCancel = "L134_in" =>
        /\ pc \in {"L134_in", "L140", "except", "done"}
        /\ \A i \in 1..Len(events) : events[i] \in {Progress(5), Progress(10), Progress(20)}
        /\ written = <<>>
        /\ NumTerminal = 0

C5_Witness ==
    /\ pcAtCancel = "L134_in"
    /\ pc = "done"
    /\ excFrom = "none"
    /\ Len(events) = 3

\* the exceptions the outer except clauses receive from model loading (the
\* first call when the inner clause does not retry, or the retry) or inference
LoadOrInferenceFailed == excFrom \in {"load", "retry", "transcribe"}

\* the except clauses have the exception: it was not caught for a retry
AtOuterHandler == pc \in {"except", "L213", "L229", "done"}

\* C6 as claimed: an exception of load_model (after the retry rule) or of
\* model.transcribe always ends the job with exactly one error event and no
\* finished event.
C6_FailureAlwaysReported ==
    (pc = "done" /\ LoadOrInferenceFailed) =>
        /\ Count("error") = 1
        /\ Count("finished") = 0

\* C6, amended: an exception of load_model (after the retry rule) or of
\* model.transcribe ends the job without a finished event, and with exactly one
\* error event unless the except clause finds the cancelled flag set (lines 212,
\* 228), in which case no event is emitted.
C6_FailureReportedUnlessCancelled ==
    /\ Count("error") <= 1
    /\ (LoadOrInferenceFailed /\ AtOuterHandler) => Count("finished") = 0
    /\ (pc = "done" /\ LoadOrInferenceFailed) =>
           Count("error") = IF suppressed THEN 0 ELSE 1

C6_Witness ==
    /\ pc = "done"
    /\ excFrom = "transcribe"
    /\ ~suppressed
    /\ events[Len(events)].kind = "error"

\* C7 as claimed: a certificate failure of the first load_model triggers
\* exactly one retry, load_model is called at most twice per job, and a failing
\* retry always ends the job with a Failed event.
C7_OneRetryThenFailed ==
    /\ loadCalls <= 2
    /\ (certFailed /\ pc \notin {"L121", "L122", "L123"}) => loadCalls = 2
    /\ ~certFailed => loadCalls <= 1
    /\ (pc = "done" /\ excFrom = "retry") => Count("error") = 1

\* C7, amended: a certificate failure of the first load_model triggers exactly
\* one retry and load_model is called at most twice per job; a failing retry
\* (also one failing with another certificate failure) is not retried and ends
\* the job, with a Failed event unless the except clause finds the cancelled flag
\* set, in which case no event is emitted.
C7_OneRetryOnly ==
    /\ loadCalls <= 2
    /\ (certFailed /\ pc \notin {"L121", "L122", "L123"}) => loadCalls = 2
    /\ ~certFailed => loadCalls <= 1
    /\ (excFrom = "retry" /\ AtOuterHandler) => Count("finished") = 0
    /\ (pc = "done" /\ excFrom = "retry") =>
           Count("error") = IF suppressed THEN 0 ELSE 1

C7_Witness ==
    /\ pc = "done"
    /\ excFrom = "retry"
    /\ exc = CertFailure
    /\ loadCalls = 2
    /\ Count("error") = 1

\* a call that failed outside the certificate retry rule
FailedWithoutRetryRule == excFrom \in {"load", "transcribe", "write"}

\* the failed call is not made again
NeverRetried ==
    /\ transcribeCalls <= 1
    /\ \A i, j \in 1..Len(written) : written[i] = written[j] => i = j
    /\ (excFrom = "load" /\ AtOuterHandler) => (loadCalls = 1 /\ transcribeCalls = 0)
    /\ (excFrom = "transcribe" /\ AtOuterHandler) => written = <<>>
    /\ (excFrom = "write" /\ AtOuterHandler) => Canonical[blk] \notin Range(written)

\* C8 as claimed: a load failure that is not a certificate failure, an inference
\* failure and an output-write failure are never retried and always end the job
\* in Failed (an error event).
C8_NoOtherRetryAlwaysFailed ==
    /\ NeverRetried
    /\ (pc = "done" /\ FailedWithoutRetryRule) =>
           (Count("error") = 1 /\ Count("finished") = 0)

\* C8, amended: a load failure that is not a certificate failure, an inference
\* failure and an output-write failure are never retried and end the job, in
\* Failed (one error event) unless the except clause finds the cancelled flag
\* set, in which case the job ends with no terminal event.
C8_NoOtherRetry ==
    /\ NeverRetried
    /\ (FailedWithoutRetryRule /\ AtOuterHandler) => Count("finished") = 0
    /\ (pc = "done" /\ FailedWithoutRetryRule) =>
           Count("error") = IF suppressed THEN 0 ELSE 1

C8_Witness ==
    /\ pc = "done"
    /\ excFrom = "write"
    /\ Len(written) = 1
    /\ Count("error") = 1

\* C9: certificate verification is relaxed for the retry only: the process-wide
\* HTTPS context is unverified only while the retry of load_model is being made.
C9_RelaxedForRetryOnly ==
    httpsContext = "unverified" => pc \in {"L123", "L123_in"}

\* the percentages of the progress events, in order of emission
RECURSIVE Percentages(_)
Percentages(evs) ==
    IF evs = <<>> THEN <<>>
    ELSE IF Head(evs).kind = "progress"
         THEN <<Head(evs).pct>> \o Percentages(Tail(evs))
         ELSE Percentages(Tail(evs))

\* C10: the percentages of a job's progress events are non-decreasing and lie
\* in [0,100], and when exactly one (supported) output format is requested the
\* last progress value before the finished event is 95.
C10_ProgressMonotone ==
    LET ps == Percentages(events)
    IN  /\ \A i \in 1..Len(ps) : ps[i] >= 0 /\ ps[i] <= 100
        /\ \A i \in 1..(Len(ps) - 1) : ps[i] <= ps[i + 1]
        /\ (/\ Len(output_formats) = 1
            /\ output_formats[1] \in Supported
            /\ Count("finished") = 1) =>
               /\ events[Len(events)].kind = "finished"
               /\ events[Len(events) - 1] = Progress(95)

C10_Witness ==
    /\ output_formats = <<"vtt">>
    /\ Count("finished") = 1
    /\ Percentages(events) = <<5, 10, 20, 80, 95>>

\* the request invariant of the data model: a non-empty list of distinct
\* supported formats (what start_transcription passes, lines 925-929)
ValidRequest(req) ==
    /\ Len(req) > 0
    /\ Range(req) \subseteq Supported
    /\ \A i, j \in 1..Len(req) : req[i] = req[j] => i = j

\* the supported formats of the request, in the order of the blocks of run()
ExpectedOrder == InCanonicalOrder(Range(output_formats) \cap Supported, 1)

\* C11: in a job that emits finished, with n requested formats, the progress
\* values are 5, 10, 20, 80 and then, after the k-th written format, 80 + k*15/n
\* truncated to an integer, for k = 1..n.
C11_ProgressSequence ==
    (ValidRequest(output_formats) /\ Count("finished") = 1) =>
        LET n == Len(output_formats)
        IN  Percentages(events) =
                <<5, 10, 20, 80>> \o [k \in 1..n |-> (80 * n + 15 * k) \div n]

C11_Witness ==
    /\ Len(output_formats) = 4
    /\ Count("finished") = 1
    /\ Percentages(events) = <<5, 10, 20, 80, 83, 87, 91, 95>>

\* C12: the files are written, and their paths appended to the artifact list,
\* in the order txt, srt, vtt, html, md, json whatever the order of the request:
\* what has been written is always a prefix of the canonical ordering of the
\* requested set, and the finished list is that ordering.
C12_CanonicalOrder ==
    /\ IsPrefix(written, ExpectedOrder)
    /\ IsPrefix(created_files, written)
    /\ \A i \in 1..Len(events) :
           events[i].kind = "finished" =>
               (events[i].files = ExpectedOrder /\ written = ExpectedOrder)

C12_Witness ==
    /\ output_formats = <<"json", "md", "html", "vtt", "srt", "txt">>
    /\ Count("finished") = 1
    /\ written = Canonical

\* C13: the list a job emits with finished holds exactly one path per requested
\* format and nothing else (as many entries as formats requested), and every
\* listed file had been written by this job when finished was emitted.
C13_FinishedListsRequested ==
    \A i \in 1..Len(events) :
        (events[i].kind = "finished" /\ ValidRequest(output_formats)) =>
            LET fs == events[i].files
            IN  /\ Len(fs) = Len(output_formats)
                /\ Range(fs) = Range(output_formats)
                /\ \A a, b \in 1..Len(fs) : fs[a] = fs[b] => a = b
                /\ Range(fs) \subseteq Range(written)
                /\ fs = written

C13_Witness ==
    /\ output_formats = <<"srt", "json">>
    /\ Count("finished") = 1
    /\ events[Len(events)].files = <<"srt", "json">>

\* the state of the artifacts when the write of the k-th format has failed:
\* the k-1 formats before it are on disk, nothing after it has been written,
\* and no event carries an artifact list
AbortedAtFailedWrite ==
    /\ Count("finished") = 0
    /\ IsPrefix(written, ExpectedOrder)
    /\ Len(written) < Len(ExpectedOrder)
    /\ ExpectedOrder[Len(written) + 1] = Canonical[blk]
    /\ \A i \in 1..Len(events) : events[i].files = <<>>

\* C14 as claimed: a failed write of the k-th format always ends the job with
\* exactly one error event, no finished event, the k-1 earlier files in place,
\* no later format written and no artifact list reported.
C14_WriteFailureAlwaysReported ==
    /\ (excFrom = "write" /\ AtOuterHandler) => AbortedAtFailedWrite
    /\ (excFrom = "write" /\ pc = "done") => Count("error") = 1

\* C14, amended: a failed write of the k-th format ends the job with no
\* finished event, the k-1 earlier files in place, no later format written and
\* no artifact list reported, and with exactly one error event unless the except
\* clause finds the cancelled flag set (lines 212, 228), in which case no event
\* is emitted.
C14_WriteFailureAborts ==
    /\ (excFrom = "write" /\ AtOuterHandler) => AbortedAtFailedWrite
    /\ (excFrom = "write" /\ pc = "done") =>
           Count("error") = IF suppressed THEN 0 ELSE 1

C14_Witness ==
    /\ excFrom = "write"
    /\ pc = "done"
    /\ Len(written) = 2
    /\ Len(ExpectedOrder) = 4
    /\ Count("error") = 1

\* C15: the error event carries the FFmpeg-not-found message exactly when the
\* failure is the absence of the decoding tool; every other failure carries its
\* own description.
C15_FfmpegMessageOnlyForMissingTool ==
    (pc = "done" /\ Count("error") = 1) =>
        LET m == events[Len(events)].msg
        IN  /\ (m = FfmpegHelp) <=> (exc = FfmpegMissing)
            /\ (exc # FfmpegMissing) => m = exc.text

\* C17: once the cancelled flag of a worker is set it stays set for as long as
\* that worker exists, and a further cancel() changes nothing.
C17_FlagPermanent ==
    /\ [][(cancelled /\ jobs' = jobs) => cancelled']_vars
    /\ [][(cancelled /\ Cancel) => UNCHANGED vars]_vars

C17_Witness ==
    /\ cancelled
    /\ pcAtCancel = "L116"
    /\ pc = "done"

(* ===================================================================== *)
(* The export functions: _format_timestamp, _write_srt, _write_vtt        *)
(* ===================================================================== *)

(* ------------------------------ strings ------------------------------- *)

\* a Python str is the sequence of its characters
Whitespace == { " ", "\t", "\n" }

\* str.strip()
Strip(s) ==
    LET solid == { k \in 1..Len(s) : s[k] \notin Whitespace }
    IN  IF solid = {} THEN <<>>
        ELSE SubSeq(s, CHOOSE k \in solid : \A j \in solid : k <= j,
                       CHOOSE k \in solid : \A j \in solid : j <= k)

DigitChars == << "0", "1", "2", "3", "4", "5", "6", "7", "8", "9" >>

\* str(n) for an int n >= 0
RECURSIVE Decimal(_)
Decimal(n) ==
    IF n < 10 THEN << DigitChars[n + 1] >>
    ELSE Append(Decimal(n \div 10), DigitChars[(n % 10) + 1])

\* f"{n:0<width>d}": at least `width` digits, zeros on the left
ZeroPad(n, width) ==
    LET d == Decimal(n)
    IN  IF Len(d) >= width THEN d
        ELSE [k \in 1..(width - Len(d)) |-> "0"] \o d

(* ------------------------- float arithmetic --------------------------- *)

\* A time is written sec + frac/FracDen seconds, as a decimal literal is; the
\* float the program holds is the binary64 nearest to it.
FracDen == 10000

\* significant bits of a Python float (IEEE-754 binary64)
MantissaBits == 53

\* bits the multiplication takes per step
LimbBits == 8

RECURSIVE BitLen(_)
BitLen(n) == IF n = 0 THEN 0 ELSE 1 + BitLen(n \div 2)

RECURSIVE Pow2Mod(_)
Pow2Mod(j) == IF j = 0 THEN 1 ELSE (2 * Pow2Mod(j - 1)) % FracDen

\* 2^j modulo FracDen, for every shift a binary64 of these sizes needs
Pow2ModTable == [j \in 0..(2 * MantissaBits) |-> Pow2Mod(j)]

\* zero bits that precede the first one bit of the binary expansion of r/FracDen
RECURSIVE LeadingZeros(_)
LeadingZeros(r) == IF 2 * r >= FracDen THEN 0 ELSE 1 + LeadingZeros(2 * r)

\* the first n bits of the binary expansion of r/FracDen, and what is left
DivBits(r, n) ==
    LET rem == [j \in 0..n |-> (r * Pow2ModTable[j]) % FracDen]
    IN  [bits |-> [j \in 1..n |-> IF 2 * rem[j - 1] >= FracDen THEN 1 ELSE 0],
         rem |-> rem[n]]

\* bits + one unit in the last place; carry is 1 when every bit was 1
Increment(bits) ==
    LET zeros == { k \in 1..Len(bits) : bits[k] = 0 }
    IN  IF zeros = {} THEN [bits |-> [k \in 1..Len(bits) |-> 0], carry |-> 1]
        ELSE LET z == CHOOSE k \in zeros : \A j \in zeros : j <= k
             IN  [bits |-> [k \in 1..Len(bits) |->
                               IF k < z THEN bits[k] ELSE IF k = z THEN 1 ELSE 0],
                  carry |-> 0]

\* the float of the time t: the nearest binary64 (ties to even), as its
\* integer part and the bits of its fractional part
ToFloat(t) ==
    IF t.frac = 0 THEN [int |-> t.sec, bits |-> <<>>]
    ELSE LET keep == IF t.sec > 0 THEN MantissaBits - BitLen(t.sec)
                     ELSE LeadingZeros(t.frac) + MantissaBits
             d == DivBits(t.frac, keep)
             roundUp == \/ 2 * d.rem > FracDen
                        \/ (2 * d.rem = FracDen /\ d.bits[keep] = 1)
             up == Increment(d.bits)
         IN  IF roundUp
             THEN [int |-> t.sec + up.carry, bits |-> up.bits]
             ELSE [int |-> t.sec, bits |-> d.bits]

\* the number a sequence of bits denotes, most significant bit first
RECURSIVE BitsValue(_)
BitsValue(bits) ==
    IF bits = <<>> THEN 0
    ELSE 2 * BitsValue(SubSeq(bits, 1, Len(bits) - 1)) + bits[Len(bits)]

\* the LimbBits bits of w < 2^LimbBits, most significant bit first
LimbOf(w) == [j \in 1..LimbBits |-> (w \div 2^(LimbBits - j)) % 2]

\* the exact product of 0.bits by 1000, limb by limb from the last limb to
\* the first: its integer part and its fraction bits
RECURSIVE TimesThousand(_, _, _, _)
TimesThousand(bits, k, int, fracBits) ==
    IF k = 0 THEN [int |-> int, bits |-> fracBits]
    ELSE LET limb == SubSeq(bits, LimbBits * (k - 1) + 1, LimbBits * k)
             v == int + 1000 * BitsValue(limb)
         IN  TimesThousand(bits, k - 1, v \div 2^LimbBits,
                           LimbOf(v % 2^LimbBits) \o fracBits)

\* int(p) for the float p the exact product int + 0.bits is rounded to
IntOfRounded(p) ==
    LET ones == { k \in 1..Len(p.bits) : p.bits[k] = 1 }
    IN  IF ones = {} THEN p.int
        ELSE LET first == CHOOSE k \in ones : \A j \in ones : k <= j
                 keep == IF p.int > 0 THEN MantissaBits - BitLen(p.int)
                         ELSE first - 1 + MantissaBits
             IN  IF Len(p.bits) <= keep THEN p.int
                 ELSE LET half == p.bits[keep + 1] = 1
                          sticky == \E j \in ones : j > keep + 1
                          odd == p.bits[keep] = 1
                          roundUp == half /\ (sticky \/ odd)
                      IN  IF roundUp /\ \A k \in 1..keep : p.bits[k] = 1
                          THEN p.int + 1
                          ELSE p.int

\* int((x % 1) * 1000): x % 1 is exact, the product is rounded to a float,
\* int() truncates it
Millisecs(x) ==
    LET limbs == (Len(x.bits) + LimbBits - 1) \div LimbBits
        padded == [k \in 1..(LimbBits * limbs) |->
                      IF k <= Len(x.bits) THEN x.bits[k] ELSE 0]
    IN  IntOfRounded(TimesThousand(padded, limbs, 0, <<>>))

(* ------------------------- _format_timestamp -------------------------- *)

\* lines 301-306; //, % and int() on the integer part of a float are exact
FormatTimestamp(t, comma) ==
    LET x == ToFloat(t)
        hours == x.int \div 3600
        minutes == (x.int % 3600) \div 60
        secs == x.int % 60
        millisecs == Millisecs(x)
        separator == IF comma THEN "," ELSE "."
    IN  ZeroPad(hours, 2) \o << ":" >> \o ZeroPad(minutes, 2) \o << ":" >>
        \o ZeroPad(secs, 2) \o << separator >> \o ZeroPad(millisecs, 3)

(* ----------------------- inputs of the exporters ---------------------- *)

Time(s, f) == [sec |-> s, frac |-> f]

\* whole seconds around every field boundary, beyond a day and beyond 99 hours
SampleSeconds == { 0, 1, 59, 60, 3599, 3600, 3661, 86399, 90000, 360000 }

\* fractions of a second in units of 1/FracDen: whole milliseconds (some of
\* them exact as a float, some not) and 3661.2505
SampleFracs == { 0, 10, 1250, 1600, 2500, 2505, 5000, 5800, 9990 }

Times == { Time(s, f) : s \in SampleSeconds, f \in SampleFracs }

SegmentSpans == { << Time(0, 0), Time(1, 5000) >>,
                  << Time(1, 1600), Time(3661, 2505) >> }

SegmentTexts == { << " ", "h", "e", "l", "l", "o", " " >>,
                  << >>,
                  << "a", " ", "b", "\n" >> }

Segments ==
    { [start |-> sp[1], end |-> sp[2], text |-> tx] :
          sp \in SegmentSpans, tx \in SegmentTexts }

Results == SeqsUpTo(Segments, MaxSegments)

StyleTexts == { << >>, << " ", "\n" >>, << "c" >>,
                << "\n", "c", "\n", " ", "c", " " >> }

CueDirectives == { << >>, << " " >>, << "l" >>, << " ", "l", " " >> }

\* what get_lms_settings builds; the default {} of __init__ reads as disabled
LmsSettings ==
    [enabled : BOOLEAN, cue_settings : CueDirectives, css : StyleTexts]

NoSettings == [enabled |-> FALSE, cue_settings |-> <<>>, css |-> <<>>]

(* ------------------------- exporter: actions -------------------------- *)

worker == << pc, cancelled, output_formats, events, written, created_files,
             num_formats, current_progress, blk, exc, excFrom, suppressed,
             httpsContext, loadCalls, transcribeCalls, jobs,
             pcAtCancel, eventsAtCancel, writtenAtCancel, callsAtCancel,
             certFailed >>

\* a worker asked for srt and vtt, about to write the first of them (line 165)
WorkerAtWrite ==
    /\ output_formats = << "srt", "vtt" >>
    /\ cancelled = FALSE
    /\ pc = "L155"
    /\ events = << Progress(5), Progress(10), Progress(20), Progress(80) >>
    /\ written = <<>>
    /\ created_files = <<>>
    /\ num_formats = 2
    /\ current_progress = 80 * ProgressDen(2)
    /\ blk = 2
    /\ exc = NoExc
    /\ excFrom = "none"
    /\ suppressed = FALSE
    /\ httpsContext = "verified"
    /\ loadCalls = 1
    /\ transcribeCalls = 1
    /\ jobs = 1
    /\ pcAtCancel = "never"
    /\ eventsAtCancel = 0
    /\ writtenAtCancel = 0
    /\ callsAtCancel = 0
    /\ certFailed = FALSE

CallTimestamp ==
    /\ op = "timestamp"
    /\ seconds \in Times
    /\ use_comma \in BOOLEAN
    /\ result = <<>>
    /\ result_text = <<>>
    /\ lms_settings = NoSettings
    /\ at = "L301"

CallWriteSrt ==
    /\ op = "srt"
    /\ seconds = Time(0, 0)
    /\ use_comma = TRUE
    /\ result \in Results
    /\ result_text = <<>>
    /\ lms_settings = NoSettings
    /\ at = "L233"

CallWriteVtt ==
    /\ op = "vtt"
    /\ seconds = Time(0, 0)
    /\ use_comma = TRUE
    /\ result \in Results
    /\ result_text = <<>>
    /\ lms_settings \in LmsSettings
    /\ at = "L244"

\* lines 301-306
FormatTimestampReturn ==
    /\ op = "timestamp"
    /\ at = "L301"
    /\ returned' = FormatTimestamp(seconds, use_comma)
    /\ at' = "end"
    /\ UNCHANGED << worker, window, result_text, op, seconds, use_comma, result, lms_settings, file,
                    seg_index, cue_settings >>

NewLine == << "\n" >>
Arrow == << " ", "-", "-", ">", " " >>

\* lines 233-234: the file is opened (and truncated), enumerate starts at 1
SrtOpen ==
    /\ op = "srt"
    /\ at = "L233"
    /\ file' = <<>>
    /\ seg_index' = 1
    /\ at' = "L234"
    /\ UNCHANGED << worker, window, result_text, op, seconds, use_comma, returned, result, lms_settings,
                    cue_settings >>

\* faulty variant of SrtWriteCue: the cues are numbered from 0
SrtWriteCueFromZero ==
    /\ op = "srt"
    /\ at = "L234"
    /\ seg_index <= Len(result)
    /\ LET segment == result[seg_index]
           start == FormatTimestamp(segment.start, TRUE)
           end == FormatTimestamp(segment.end, TRUE)
           text == Strip(segment.text)
       IN  file' = file \o Decimal(seg_index - 1) \o NewLine
                        \o start \o Arrow \o end \o NewLine
                        \o text \o NewLine \o NewLine
    /\ seg_index' = seg_index + 1
    /\ UNCHANGED << worker, window, result_text, op, seconds, use_comma, returned, result, lms_settings,
                    at, cue_settings >>

\* lines 234-240: one turn of the loop
SrtWriteCue ==
    /\ op = "srt"
    /\ at = "L234"
    /\ seg_index <= Len(result)
    /\ LET segment == result[seg_index]
           start == FormatTimestamp(segment.start, TRUE)
           end == FormatTimestamp(segment.end, TRUE)
           text == Strip(segment.text)
       IN  file' = file \o Decimal(seg_index) \o NewLine
                        \o start \o Arrow \o end \o NewLine
                        \o text \o NewLine \o NewLine
    /\ seg_index' = seg_index + 1
    /\ UNCHANGED << worker, window, result_text, op, seconds, use_comma, returned, result, lms_settings,
                    at, cue_settings >>

\* line 234: the segments are exhausted; the with block closes the file
SrtClose ==
    /\ op = "srt"
    /\ at = "L234"
    /\ seg_index > Len(result)
    /\ at' = "end"
    /\ UNCHANGED << worker, window, result_text, op, seconds, use_comma, returned, result, lms_settings,
                    file, seg_index, cue_settings >>

VttHeaderLine == << "W", "E", "B", "V", "T", "T", "\n" >>
StyleLine == << "\n", "S", "T", "Y", "L", "E", "\n" >>

\* lines 244-245
VttHeader ==
    /\ op = "vtt"
    /\ at = "L244"
    /\ file' = VttHeaderLine
    /\ at' = "L248"
    /\ UNCHANGED << worker, window, result_text, op, seconds, use_comma, returned, result, lms_settings,
                    seg_index, cue_settings >>

\* faulty variant of VttStyle: the enabled flag is not consulted
VttStyleAlways ==
    /\ op = "vtt"
    /\ at = "L248"
    /\ LET css_content == Strip(lms_settings.css)
       IN  IF css_content # <<>>
           THEN file' = file \o StyleLine \o css_content \o NewLine
           ELSE file' = file
    /\ at' = "L255"
    /\ UNCHANGED << worker, window, result_text, op, seconds, use_comma, returned, result, lms_settings,
                    seg_index, cue_settings >>

\* faulty variant of VttStyle: the style text is written as configured
VttStyleVerbatim ==
    /\ op = "vtt"
    /\ at = "L248"
    /\ LET css_content == Strip(lms_settings.css)
       IN  IF lms_settings.enabled /\ css_content # <<>>
           THEN file' = file \o StyleLine \o lms_settings.css \o NewLine
           ELSE file' = file
    /\ at' = "L255"
    /\ UNCHANGED << worker, window, result_text, op, seconds, use_comma, returned, result, lms_settings,
                    seg_index, cue_settings >>

\* lines 248-253
VttStyle ==
    /\ op = "vtt"
    /\ at = "L248"
    /\ LET css_content == Strip(lms_settings.css)
       IN  IF lms_settings.enabled /\ css_content # <<>>
           THEN file' = file \o StyleLine \o css_content \o NewLine
           ELSE file' = file
    /\ at' = "L255"
    /\ UNCHANGED << worker, window, result_text, op, seconds, use_comma, returned, result, lms_settings,
                    seg_index, cue_settings >>

\* line 255
VttBlankLine ==
    /\ op = "vtt"
    /\ at = "L255"
    /\ file' = file \o NewLine
    /\ at' = "L258"
    /\ UNCHANGED << worker, window, result_text, op, seconds, use_comma, returned, result, lms_settings,
                    seg_index, cue_settings >>

\* faulty variant of VttCueSettings: no space is put before the directive
VttCueSettingsNoSpace ==
    /\ op = "vtt"
    /\ at = "L258"
    /\ LET stripped == Strip(lms_settings.cue_settings)
       IN  cue_settings' = IF lms_settings.enabled /\ stripped # <<>>
                           THEN stripped
                           ELSE <<>>
    /\ seg_index' = 1
    /\ at' = "L264"
    /\ UNCHANGED << worker, window, result_text, op, seconds, use_comma, returned, result, lms_settings,
                    file >>

\* lines 258-262
VttCueSettings ==
    /\ op = "vtt"
    /\ at = "L258"
    /\ LET stripped == Strip(lms_settings.cue_settings)
       IN  cue_settings' = IF lms_settings.enabled /\ stripped # <<>>
                           THEN << " " >> \o stripped
                           ELSE <<>>
    /\ seg_index' = 1
    /\ at' = "L264"
    /\ UNCHANGED << worker, window, result_text, op, seconds, use_comma, returned, result, lms_settings,
                    file >>

\* lines 264-269: one turn of the loop
VttWriteCue ==
    /\ op = "vtt"
    /\ at = "L264"
    /\ seg_index <= Len(result)
    /\ LET segment == result[seg_index]
           start == FormatTimestamp(segment.start, FALSE)
           end == FormatTimestamp(segment.end, FALSE)
           text == Strip(segment.text)
       IN  file' = file \o start \o Arrow \o end \o cue_settings \o NewLine
                        \o text \o NewLine \o NewLine
    /\ seg_index' = seg_index + 1
    /\ UNCHANGED << worker, window, result_text, op, seconds, use_comma, returned, result, lms_settings,
                    at, cue_settings >>

\* line 264: the segments are exhausted; the with block closes the file
VttClose ==
    /\ op = "vtt"
    /\ at = "L264"
    /\ seg_index > Len(result)
    /\ at' = "end"
    /\ UNCHANGED << worker, window, result_text, op, seconds, use_comma, returned, result, lms_settings,
                    file, seg_index, cue_settings >>

\* ---- the json block of run(), lines 198-206: json.dump -----------------
\* json.dump(result, f, indent=2, ensure_ascii=False) as the encoder of the
\* standard library writes it: strings quoted with ", \, newline and tab
\* escaped, floats by repr (the shortest decimal that reads back as the same
\* binary64: for a value given with four fraction digits, that decimal with
\* its trailing zeros removed and at least one fraction digit kept), members
\* in insertion order, one member per line, indented two spaces per level.

Quote == "\""
Backslash == "\\"

\* every character written as it is
JsonEscapeNone(ch) == << ch >>

JsonEscape(ch) ==
    CASE ch = Quote     -> << Backslash, Quote >>
      [] ch = Backslash -> << Backslash, Backslash >>
      [] ch = "\n"      -> << Backslash, "n" >>
      [] ch = "\t"      -> << Backslash, "t" >>
      [] OTHER          -> << ch >>

RECURSIVE JsonEscapeAll(_)
JsonEscapeAll(s) ==
    IF s = << >> THEN << >> ELSE JsonEscape(Head(s)) \o JsonEscapeAll(Tail(s))

JsonString(s) == << Quote >> \o JsonEscapeAll(s) \o << Quote >>

JsonNumber(t) ==
    LET d    == ZeroPad(t.frac, 4)
        used == { k \in 1..4 : d[k] # "0" } \cup { 1 }
        last == CHOOSE k \in used : \A m \in used : m <= k
    IN  Decimal(t.sec) \o << "." >> \o SubSeq(d, 1, last)

Indent(level) == [k \in 1..(2 * level) |-> " "]

JsonKey(level, name) == Indent(level) \o << Quote >> \o name \o << Quote, ":", " " >>

KeyText == << "t", "e", "x", "t" >>
KeySegments == << "s", "e", "g", "m", "e", "n", "t", "s" >>
KeyLanguage == << "l", "a", "n", "g", "u", "a", "g", "e" >>
KeyStart == << "s", "t", "a", "r", "t" >>
KeyEnd == << "e", "n", "d" >>

\* one element of result['segments']; last tells whether a comma follows
JsonSegment(segment, last) ==
    Indent(2) \o << "{" >> \o NewLine
    \o JsonKey(3, KeyStart) \o JsonNumber(segment.start) \o << "," >> \o NewLine
    \o JsonKey(3, KeyEnd) \o JsonNumber(segment.end) \o << "," >> \o NewLine
    \o JsonKey(3, KeyText) \o JsonString(segment.text) \o NewLine
    \o Indent(2) \o << "}" >> \o (IF last THEN << >> ELSE << "," >>) \o NewLine

RECURSIVE JsonSegmentsFrom(_, _)
JsonSegmentsFrom(segments, j) ==
    IF j > Len(segments) THEN << >>
    ELSE JsonSegment(segments[j], j = Len(segments)) \o JsonSegmentsFrom(segments, j + 1)

JsonDump(text, segments) ==
    << "{" >> \o NewLine
    \o JsonKey(1, KeyText) \o JsonString(text) \o << "," >> \o NewLine
    \o JsonKey(1, KeySegments)
    \o (IF segments = << >> THEN << "[", "]" >>
        ELSE << "[" >> \o NewLine \o JsonSegmentsFrom(segments, 1) \o Indent(1) \o << "]" >>)
    \o << "," >> \o NewLine
    \o JsonKey(1, KeyLanguage) \o JsonString(<< "e", "n" >>) \o NewLine
    \o << "}" >>

\* inputs of the json block: texts with every character the encoder escapes,
\* times with zero, short and full fractions
JsonTexts == { << >>, << " ", "a", " " >>, << Quote, "a", Backslash, "n", "\n", "\t" >> }

JsonSegments ==
    { [start |-> Time(0, 0), end |-> Time(1, 5000), text |-> << " ", "a" >>],
      [start |-> Time(1, 10), end |-> Time(3661, 2505), text |-> << Quote, Backslash, "\n" >>],
      [start |-> Time(59, 9990), end |-> Time(360000, 0), text |-> << >>] }

JsonResults == SeqsUpTo(JsonSegments, MaxSegments)

CallJsonDump ==
    /\ op = "json"
    /\ seconds = Time(0, 0)
    /\ use_comma = TRUE
    /\ result \in JsonResults
    /\ result_text \in JsonTexts
    /\ lms_settings = NoSettings
    /\ at = "L202"

\* line 202: open(json_path, 'w', encoding='utf-8') truncates the file
JsonOpen ==
    /\ op = "json"
    /\ at = "L202"
    /\ file' = << >>
    /\ at' = "L203"
    /\ UNCHANGED << worker, window, result_text, op, seconds, use_comma, returned, result,
                    lms_settings, seg_index, cue_settings >>

\* line 203, and the close at the end of the with block
JsonWrite ==
    /\ op = "json"
    /\ at = "L203"
    /\ file' = file \o JsonDump(result_text, result)
    /\ at' = "end"
    /\ UNCHANGED << worker, window, result_text, op, seconds, use_comma, returned, result,
                    lms_settings, seg_index, cue_settings >>

InitExport ==
    /\ WorkerAtWrite
    /\ NewWindow
    /\ CallTimestamp \/ CallWriteSrt \/ CallWriteVtt \/ CallJsonDump
    /\ returned = <<>>
    /\ file = <<>>
    /\ seg_index = 0
    /\ cue_settings = <<>>

NextExport ==
    \/ FormatTimestampReturn
    \/ SrtOpen \/ SrtWriteCue \/ SrtClose
    \/ VttHeader \/ VttStyle \/ VttBlankLine \/ VttCueSettings
    \/ VttWriteCue \/ VttClose
    \/ JsonOpen \/ JsonWrite

SpecExport == InitExport /\ [][NextExport]_vars

(* ------------------------- claims: exporters -------------------------- *)

\* the time t is a whole number of milliseconds
WholeMilliseconds(t) == (t.frac * 1000) % FracDen = 0

\* C18: for every time that is a whole number of milliseconds (and for
\* 3661.2505) and both separators, _format_timestamp returns HH:MM:SS<sep>mmm
\* with HH the whole seconds div 3600 on at least two digits and never
\* clamped, MM and SS in 00..59, and mmm the fractional part of the time cut
\* (not rounded) to milliseconds.
C18_TimestampFormat ==
    (op = "timestamp" /\ at = "end"
        /\ (WholeMilliseconds(seconds) \/ seconds = Time(3661, 2505)))
    => LET total == seconds.sec
           mmm == (seconds.frac * 1000) \div FracDen
       IN  returned = ZeroPad(total \div 3600, 2) \o << ":" >>
                      \o ZeroPad((total % 3600) \div 60, 2) \o << ":" >>
                      \o ZeroPad(total % 60, 2)
                      \o << IF use_comma THEN "," ELSE "." >>
                      \o ZeroPad(mmm, 3)

\* the lines of a text, each ended by a newline character
Lines(chars) ==
    LET ends == { k \in 1..Len(chars) : chars[k] = "\n" }
        EndOf(j) == IF j = 0 THEN 0
                    ELSE CHOOSE k \in ends :
                             Cardinality({ m \in ends : m <= k }) = j
    IN  [j \in 1..Cardinality(ends) |-> SubSeq(chars, EndOf(j - 1) + 1, EndOf(j) - 1)]

\* C19: for a result of N segments _write_srt writes exactly N cues in segment
\* order, the i-th being the line i (counted from 1), the line
\* 'start --> end' with the comma timestamps the formatter returns for
\* segment i, the stripped text of the segment and an empty line; the single
\* segment (0.0, 1.5, ' hello ') gives '1', '00:00:00,000 --> 00:00:01,500',
\* 'hello' and an empty line.
C19_SrtCues ==
    (op = "srt" /\ at = "end") =>
        LET lines == Lines(file)
            N == Len(result)
        IN  /\ Len(lines) = 4 * N
            /\ \A n \in 1..N :
                 /\ lines[4 * n - 3] = Decimal(n)
                 /\ lines[4 * n - 2] =
                        FormatTimestamp(result[n].start, TRUE) \o Arrow
                            \o FormatTimestamp(result[n].end, TRUE)
                 /\ lines[4 * n - 1] = Strip(result[n].text)
                 /\ lines[4 * n] = <<>>
            /\ result = << [start |-> Time(0, 0), end |-> Time(1, 5000),
                            text |-> << " ", "h", "e", "l", "l", "o", " " >>] >>
               => lines = << << "1" >>,
                             << "0", "0", ":", "0", "0", ":", "0", "0", ",",
                                "0", "0", "0", " ", "-", "-", ">", " ",
                                "0", "0", ":", "0", "0", ":", "0", "1", ",",
                                "5", "0", "0" >>,
                             << "h", "e", "l", "l", "o" >>,
                             << >> >>

\* a finished SRT file of two cues, the first from a text with blanks around it
C19_Witness ==
    /\ op = "srt"
    /\ at = "end"
    /\ Len(result) = 2
    /\ result[1].text = << " ", "h", "e", "l", "l", "o", " " >>
    /\ result[2].text = << "a", " ", "b", "\n" >>

\* the file has a line that opens a STYLE block
HasStyleBlock(chars) ==
    \E j \in 1..Len(Lines(chars)) :
        Lines(chars)[j] = << "S", "T", "Y", "L", "E" >>

\* C20 as stated: the VTT file has a STYLE block exactly when styling is
\* enabled and the configured style text is not empty.
C20_StyleBlockIffNonEmpty ==
    (op = "vtt" /\ at = "end") =>
        (HasStyleBlock(file) <=> (lms_settings.enabled /\ lms_settings.css # <<>>))

\* C20: the VTT file has a STYLE block exactly when styling is enabled and
\* the configured style text has a character that is not whitespace.
C20_StyleBlockIffNonBlank ==
    (op = "vtt" /\ at = "end") =>
        (HasStyleBlock(file)
            <=> (lms_settings.enabled /\ Strip(lms_settings.css) # <<>>))

\* styling enabled, a style text of whitespace only, and no STYLE block
C20_Witness ==
    /\ op = "vtt"
    /\ at = "end"
    /\ lms_settings.enabled
    /\ lms_settings.css = << " ", "\n" >>
    /\ ~HasStyleBlock(file)
    /\ Len(result) = 1

(* ===================================================================== *)
(* The window: start_transcription, clear_or_cancel and the handlers     *)
(* ===================================================================== *)

\* Worker signals reach the window through the event queue of the GUI thread
\* (the emitter runs in another thread). Each handler runs to its end before
\* the next event is taken; in which order a queued signal and a click of
\* the user are taken is left open. WHISPER_AVAILABLE is True and a format
\* is checked (the default), or nothing could be started at all.

Workers == 1..MaxWorkers

\* QThread.isRunning()
IsRunning(w) == thread[w] \in { "run", "pass", "returned" }

\* `self.worker and self.worker.isRunning()`
WorkerRunning == window_worker # 0 /\ IsRunning(window_worker)

\* reset_buttons, line 1011
ResetButtons == transcribe_btn' = TRUE

\* dropEvent, lines 851-858
DropFile ==
    /\ gui = "idle"
    /\ selected_file' = "file"
    /\ UNCHANGED << worker, exporter, transcribe_btn, window_worker, started, thread,
                    flag, queued, gui, handled, cancel_returned >>

\* browse_file, lines 861-875, with a file chosen in the dialog
BrowseFile ==
    /\ gui = "idle"
    /\ ~WorkerRunning
    /\ selected_file' = "file"
    /\ UNCHANGED << worker, exporter, transcribe_btn, window_worker, started, thread,
                    flag, queued, gui, handled, cancel_returned >>

\* a click on the enabled Transcribe button: start_transcription, lines
\* 916-971, past its early returns
StartTranscription ==
    /\ gui = "idle"
    /\ transcribe_btn
    /\ selected_file # "none"
    /\ started < MaxWorkers
    /\ transcribe_btn' = FALSE
    /\ started' = started + 1
    /\ window_worker' = started + 1
    /\ thread' = [thread EXCEPT ![started + 1] = "run"]
    /\ flag' = [flag EXCEPT ![started + 1] = FALSE]
    /\ UNCHANGED << worker, exporter, selected_file, queued, gui, handled,
                    cancel_returned >>

\* clear_or_cancel, lines 1028-1030: cancel(), quit(), and wait() begins
CancelRunning ==
    /\ gui = "idle"
    /\ WorkerRunning
    /\ flag' = [flag EXCEPT ![window_worker] = TRUE]
    /\ gui' = "waiting"
    /\ UNCHANGED << worker, exporter, selected_file, transcribe_btn, window_worker,
                    started, thread, queued, handled, cancel_returned >>

\* clear_or_cancel, lines 1030-1035: wait() returns once the thread is over
WaitReturns ==
    /\ gui = "waiting"
    /\ thread[window_worker] = "over"
    /\ ResetButtons
    /\ cancel_returned' = cancel_returned \cup { window_worker }
    /\ gui' = "idle"
    /\ UNCHANGED << worker, exporter, selected_file, window_worker, started, thread,
                    flag, queued, handled >>

\* clear_or_cancel, lines 1036-1044
ClearSelection ==
    /\ gui = "idle"
    /\ ~WorkerRunning
    /\ selected_file' = "none"
    /\ UNCHANGED << worker, exporter, transcribe_btn, window_worker, started, thread,
                    flag, queued, gui, handled, cancel_returned >>

\* on_finished, lines 978-995
OnFinished ==
    /\ gui = "idle"
    /\ queued # <<>>
    /\ Head(queued).kind = "finished"
    /\ ResetButtons
    /\ handled' = handled \cup { Head(queued).job }
    /\ queued' = Tail(queued)
    /\ UNCHANGED << worker, exporter, selected_file, window_worker, started, thread,
                    flag, gui, cancel_returned >>

\* on_error, lines 997-1007
OnError ==
    /\ gui = "idle"
    /\ queued # <<>>
    /\ Head(queued).kind = "error"
    /\ ResetButtons
    /\ handled' = handled \cup { Head(queued).job }
    /\ queued' = Tail(queued)
    /\ UNCHANGED << worker, exporter, selected_file, window_worker, started, thread,
                    flag, gui, cancel_returned >>

\* run() of worker w reads self.cancelled at a check: it returns when the flag
\* is set (lines 112, 127, 140, 153, 208, 212, 228), and has otherwise passed
\* the last check before its terminal event (lines 208, 212, 228)
WorkerCheck(w) ==
    /\ thread[w] = "run"
    /\ thread' = [thread EXCEPT ![w] = IF flag[w] THEN "returned" ELSE "pass"]
    /\ UNCHANGED << worker, exporter, selected_file, transcribe_btn, window_worker,
                    started, flag, queued, gui, handled, cancel_returned >>

\* lines 209, 213-226, 229: the terminal event is emitted and run() returns
WorkerEmitTerminal(w) ==
    /\ thread[w] = "pass"
    /\ \E k \in { "finished", "error" } :
         queued' = Append(queued, [job |-> w, kind |-> k])
    /\ thread' = [thread EXCEPT ![w] = "returned"]
    /\ UNCHANGED << worker, exporter, selected_file, transcribe_btn, window_worker,
                    started, flag, gui, handled, cancel_returned >>

\* the thread ends after run() has returned
WorkerThreadEnds(w) ==
    /\ thread[w] = "returned"
    /\ thread' = [thread EXCEPT ![w] = "over"]
    /\ UNCHANGED << worker, exporter, selected_file, transcribe_btn, window_worker,
                    started, flag, queued, gui, handled, cancel_returned >>

InitWindow ==
    /\ Init
    /\ output_formats = << "txt" >>

NextWindow ==
    \/ DropFile \/ BrowseFile \/ StartTranscription
    \/ CancelRunning \/ WaitReturns \/ ClearSelection
    \/ OnFinished \/ OnError
    \/ \E w \in Workers :
         WorkerCheck(w) \/ WorkerEmitTerminal(w) \/ WorkerThreadEnds(w)

SpecWindow == InitWindow /\ [][NextWindow]_vars

(* -------------------------- claims: window ---------------------------- *)

\* a started job whose terminal event has not been handled and from whose
\* cancellation clear_or_cancel has not returned
OpenJob(w) ==
    /\ thread[w] # "unborn"
    /\ w \notin handled
    /\ w \notin cancel_returned

\* C16: at most one transcription job at a time: no TranscriptionWorker is
\* started while an earlier one is between its start and the handling of its
\* terminal event or the return of clear_or_cancel, whatever the user does.
C16_OneJobAtATime == Cardinality({ w \in Workers : OpenJob(w) }) <= 1

(* -------------------- claims: exporters, continued --------------------- *)

\* the lines of the cues of a VTT file whose result has N segments: the last
\* three lines for each segment
VttCueLines(chars, N) ==
    LET lines == Lines(chars)
    IN  SubSeq(lines, Len(lines) - 3 * N + 1, Len(lines))

\* the 'start --> end' part of the timestamp line of a segment
VttTimes(segment) ==
    FormatTimestamp(segment.start, FALSE) \o Arrow
        \o FormatTimestamp(segment.end, FALSE)

\* C21 as stated: with styling enabled and a non-empty cue directive every
\* timestamp line of the VTT file ends with one space and the directive; with
\* an empty directive, or with styling disabled, nothing is appended.
C21_DirectiveAppended ==
    (op = "vtt" /\ at = "end") =>
        LET cues == VttCueLines(file, Len(result))
            suffix == IF lms_settings.enabled /\ lms_settings.cue_settings # <<>>
                      THEN << " " >> \o lms_settings.cue_settings
                      ELSE <<>>
        IN  \A n \in 1..Len(result) :
                cues[3 * n - 2] = VttTimes(result[n]) \o suffix

\* C21: with styling enabled and a cue directive that has a character other
\* than whitespace, every timestamp line of the VTT file ends with one space
\* and the directive stripped of leading and trailing whitespace; with an
\* empty or blank directive, or with styling disabled, nothing is appended.
C21_StrippedDirectiveAppended ==
    (op = "vtt" /\ at = "end") =>
        LET cues == VttCueLines(file, Len(result))
            directive == Strip(lms_settings.cue_settings)
            suffix == IF lms_settings.enabled /\ directive # <<>>
                      THEN << " " >> \o directive
                      ELSE <<>>
        IN  \A n \in 1..Len(result) :
                cues[3 * n - 2] = VttTimes(result[n]) \o suffix

\* a finished VTT file of two cues, styling enabled, a directive with blanks
\* around it
C21_Witness ==
    /\ op = "vtt"
    /\ at = "end"
    /\ Len(result) = 2
    /\ lms_settings.enabled
    /\ lms_settings.cue_settings = << " ", "l", " " >>
    /\ cue_settings = << " ", "l" >>

\* what precedes the cues in a VTT file whose result has N segments
VttHead(chars, N) ==
    LET lines == Lines(chars)
    IN  SubSeq(lines, 1, Len(lines) - 3 * N)

\* C22 as stated: with styling enabled and a non-empty style text, the STYLE
\* block holds the configured style text character for character.
C22_StyleTextVerbatim ==
    (op = "vtt" /\ at = "end" /\ lms_settings.enabled /\ lms_settings.css # <<>>)
    => VttHead(file, Len(result))
           = << << "W", "E", "B", "V", "T", "T" >>, << >>,
                << "S", "T", "Y", "L", "E" >> >>
             \o Lines(lms_settings.css \o NewLine) \o << << >> >>

\* C22: with styling enabled and a style text that has a character other than
\* whitespace, the STYLE block holds the style text stripped of its leading
\* and trailing whitespace, character for character.
C22_StyleTextStripped ==
    (op = "vtt" /\ at = "end" /\ lms_settings.enabled
        /\ Strip(lms_settings.css) # <<>>)
    => VttHead(file, Len(result))
           = << << "W", "E", "B", "V", "T", "T" >>, << >>,
                << "S", "T", "Y", "L", "E" >> >>
             \o Lines(Strip(lms_settings.css) \o NewLine) \o << << >> >>

\* a finished VTT file with a STYLE block from a style text of two lines with
\* whitespace around it
C22_Witness ==
    /\ op = "vtt"
    /\ at = "end"
    /\ lms_settings.enabled
    /\ lms_settings.css = << "\n", "c", "\n", " ", "c", " " >>
    /\ HasStyleBlock(file)
    /\ Len(result) = 1

\* ---- C23: reading the json artifact back ------------------------------
\* A reader of the document json.dump lays out: one member per line, string
\* values between quotes with their escapes undone, numbers as decimals. A
\* line that is not the member expected, a quote or a control character left
\* bare inside a string, or an escape that does not exist reads as Malformed.

Malformed == << "malformed" >>

RECURSIVE JsonUnescape(_)
JsonUnescape(s) ==
    IF s = << >> THEN << >>
    ELSE IF Head(s) \in { Quote, "\n", "\t" } THEN Malformed
    ELSE IF Head(s) # Backslash THEN << Head(s) >> \o JsonUnescape(Tail(s))
    ELSE IF Len(s) < 2 THEN Malformed
    ELSE LET rest == JsonUnescape(SubSeq(s, 3, Len(s)))
         IN  CASE s[2] = Quote     -> << Quote >> \o rest
               [] s[2] = Backslash -> << Backslash >> \o rest
               [] s[2] = "n"       -> << "\n" >> \o rest
               [] s[2] = "t"       -> << "\t" >> \o rest
               [] OTHER            -> Malformed

JsonReadString(s) ==
    IF Len(s) >= 2 /\ s[1] = Quote /\ s[Len(s)] = Quote
    THEN JsonUnescape(SubSeq(s, 2, Len(s) - 1))
    ELSE Malformed

DigitValue(ch) == CHOOSE d \in 0..9 : DigitChars[d + 1] = ch

RECURSIVE DigitsValue(_)
DigitsValue(s) ==
    IF s = << >> THEN 0
    ELSE 10 * DigitsValue(SubSeq(s, 1, Len(s) - 1)) + DigitValue(s[Len(s)])

JsonReadNumber(s) ==
    LET dots == { k \in 1..Len(s) : s[k] = "." }
    IN  IF Cardinality(dots) # 1
           \/ \E k \in 1..Len(s) : s[k] \notin (Range(DigitChars) \cup { "." })
        THEN Malformed
        ELSE LET dot      == CHOOSE k \in dots : TRUE
                 fraction == SubSeq(s, dot + 1, Len(s))
                 padded   == fraction \o [k \in 1..(4 - Len(fraction)) |-> "0"]
             IN  IF dot = 1 \/ fraction = << >> \/ Len(fraction) > 4 THEN Malformed
                 ELSE Time(DigitsValue(SubSeq(s, 1, dot - 1)), DigitsValue(padded))

\* the value of the member name on a line, without the comma that follows it
JsonMember(line, level, name, comma) ==
    LET key  == JsonKey(level, name)
        tail == IF comma THEN << "," >> ELSE << >>
        n    == Len(line) - Len(key) - Len(tail)
    IN  IF n >= 0 /\ SubSeq(line, 1, Len(key)) = key
           /\ SubSeq(line, Len(line) - Len(tail) + 1, Len(line)) = tail
        THEN SubSeq(line, Len(key) + 1, Len(key) + n)
        ELSE Malformed

JsonLoad(chars) ==
    LET lines == Lines(chars \o NewLine)
        empty == Len(lines) = 5
        N     == IF empty THEN 0 ELSE (Len(lines) - 6) \div 5
        At(j) == IF j \in 1..Len(lines) THEN lines[j] ELSE Malformed
        first == IF empty THEN 0 ELSE 3
    IN  [text     |-> JsonReadString(JsonMember(At(2), 1, KeyText, TRUE)),
         segments |-> [j \in 1..N |->
             [start |-> JsonReadNumber(JsonMember(At(first + 5 * j - 3), 3, KeyStart, TRUE)),
              end   |-> JsonReadNumber(JsonMember(At(first + 5 * j - 2), 3, KeyEnd, TRUE)),
              text  |-> JsonReadString(JsonMember(At(first + 5 * j - 1), 3, KeyText, FALSE))]]]

\* C23: once the json artifact is written, reading it back yields the
\* original full transcript text and the same number of segments, in the same
\* order, each with the same start, end and text as the inference result.
C23_JsonRoundTrip ==
    (op = "json" /\ at = "end") =>
        LET loaded == JsonLoad(file)
        IN  /\ loaded.text = result_text
            /\ Len(loaded.segments) = Len(result)
            /\ \A j \in 1..Len(result) :
                   /\ loaded.segments[j].start = result[j].start
                   /\ loaded.segments[j].end = result[j].end
                   /\ loaded.segments[j].text = result[j].text

\* two different segments written, texts with a quote, a backslash and a newline
C23_Witness ==
    /\ op = "json"
    /\ at = "end"
    /\ Len(result) = 2
    /\ result[1] # result[2]
    /\ result[2].start = Time(1, 10)
    /\ Quote \in Range(result_text)
    /\ Len(file) > 0

(* ------------------------- claims: artifacts -------------------------- *)

\* the path each write of this job went to, in the order of the writes
PathsWritten == [i \in 1..Len(written) |-> ArtifactPath(written[i])]

\* C24: every artifact of a job is written at
\* <destination directory>/<source-file-stem>_transcript.<format-extension>,
\* so the paths written by one job are pairwise distinct: no write goes to
\* the path of an earlier write, and the paths listed in created_files are
\* those of the files written.
C24_ArtifactPathsDistinct ==
    /\ \A i \in 1..Len(written) :
           /\ PathsWritten[i].dir = "output_dir"
           /\ PathsWritten[i].name
                  = << "base_path", "_transcript", ".", written[i] >>
    /\ \A i, j \in 1..Len(written) :
           i # j => PathsWritten[i] # PathsWritten[j]
    /\ IsPrefix(created_files, written)

\* all six formats requested and written
C24_Witness ==
    /\ pc = "done"
    /\ Len(written) = NumBlocks
    /\ created_files = written

(* --------------------------- claims: phases --------------------------- *)

\* the phase run() is in, by the line it is at: the phases begin at the
\* progress events 5, 20 and 80; 5 is the except clauses, 6 is run() returned
PhaseRank(p) ==
    CASE p \in { "L108", "L112", "L116" }                             -> 1
      [] p \in { "L119", "L119_in", "L121", "L122", "L123", "L123_in",
                 "L127", "L130", "L133" }                             -> 2
      [] p \in { "L134", "L134_in", "L140", "L143" }                   -> 3
      [] p \in { "L146", "L152", "L153", "L155", "L158", "L208", "L209" } -> 4
      [] p \in { "except", "L213", "L229" }                            -> 5
      [] p = "done"                                                   -> 6

LoadSucceeded ==
    /\ loadCalls >= 1
    /\ pc \notin { "L119_in", "L121", "L122", "L123", "L123_in" }
    /\ excFrom \notin { "load", "retry" }

TranscribeReturned ==
    /\ transcribeCalls = 1
    /\ pc # "L134_in"
    /\ excFrom # "transcribe"

\* one step of a job keeps to the chain or leaves it for good
PhaseStep ==
    LET a == PhaseRank(pc)
        b == PhaseRank(pc')
    IN  \/ b = a
        \/ a < 4 /\ b = a + 1
        \/ a <= 4 /\ pc' = "except"
        \/ a <= 4 /\ pc' = "done" /\ cancelled
        \/ pc = "L209" /\ pc' = "done" /\ events'[Len(events')].kind = "finished"
        \/ a = 5 /\ b = 6

\* C25: a job moves through Idle, LoadingModel, Transcribing,
\* WritingOutputs, Completed in that order and leaves the chain only to
\* Cancelled or Failed: model.transcribe is called at most once and only
\* after load_model has succeeded, no file is written before transcribe has
\* returned, and no progress event follows a terminal event.
C25_PhaseOrder ==
    /\ [](/\ transcribeCalls <= 1
          /\ (transcribeCalls >= 1 => LoadSucceeded)
          /\ (written # << >> => TranscribeReturned /\ PhaseRank(pc) >= 4)
          /\ \A i, j \in 1..Len(events) :
                 (i < j /\ events[i].kind \in { "finished", "error" })
                     => events[j].kind # "progress")
    /\ [][jobs' = jobs => PhaseStep]_vars

\* a job that loaded on the retry, transcribed, wrote two files and completed
C25_Witness ==
    /\ pc = "done"
    /\ certFailed
    /\ loadCalls = 2
    /\ transcribeCalls = 1
    /\ Len(written) = 2
    /\ events[Len(events)].kind = "finished"

(* ------------------------ claims: termination ------------------------- *)

\* C26: provided each blocking call eventually returns or raises, every
\* started job eventually has run() returned, no exception having escaped
\* it, and is then Completed (finished emitted), Failed (error emitted) or
\* Cancelled (no terminal event, the flag set).
C26_RunReturns ==
    /\ \A k \in 1..MaxJobs : (jobs = k) ~> (jobs = k /\ pc = "done")
    /\ [](pc = "done" => (NumTerminal = 1 \/ (NumTerminal = 0 /\ cancelled)))

\* run() has returned after an exception of the retry reached the outer clauses
C26_Witness ==
    /\ pc = "done"
    /\ excFrom = "retry"
    /\ exc.type = "URLError"
    /\ NumTerminal = 1

(* ---------------------- claims: per-format events --------------------- *)

\* the progress events of the format blocks: those emitted after the event
\* of line 143, the first one with the value 80
CreatedEvents ==
    LET starts == { i \in 1..Len(events) :
                        events[i].kind = "progress" /\ events[i].pct = 80 }
        first  == CHOOSE i \in starts : \A k \in starts : i <= k
    IN  IF starts = { } THEN 0
        ELSE Cardinality({ i \in (first + 1)..Len(events) : events[i].kind = "progress" })

\* C27: files are written one at a time. The progress event of a format is
\* emitted once its file is written and its path appended, and before the
\* next write begins: when a write begins every file written so far has had
\* its event, and the events never outnumber the files written.
C27_OneFileAtATime ==
    /\ CreatedEvents <= Len(written)
    /\ CreatedEvents = Len(created_files)
    /\ Len(written) <= CreatedEvents + 1
    /\ IsPrefix(created_files, written)
    /\ (pc = "L155" => CreatedEvents = Len(written))
    /\ (pc = "L158" => Len(written) = CreatedEvents + 1)

\* the second file is written and its event not yet emitted
C27_Witness ==
    /\ pc = "L158"
    /\ Len(written) = 2
    /\ CreatedEvents = 1
    /\ Len(created_files) = 1

(* ---------------------- claims: the last progress --------------------- *)

\* C28: for every number n of distinct supported formats requested,
\* 1 <= n <= 6, the last progress value before the finished event is 95, and
\* the worker never emits the value 100, whatever the request.
C28_LastValueIs95 ==
    /\ \A i \in 1..Len(events) : events[i].kind = "progress" => events[i].pct # 100
    /\ (ValidRequest(output_formats) /\ Count("finished") = 1) =>
           LET ps == Percentages(events)
           IN  /\ Len(output_formats) \in 1..NumBlocks
               /\ events[Len(events)].kind = "finished"
               /\ events[Len(events) - 1].kind = "progress"
               /\ ps[Len(ps)] = 95

\* six formats requested: the steps of 2.5 end at 95
C28_Witness ==
    /\ Len(output_formats) = NumBlocks
    /\ Count("finished") = 1
    /\ Percentages(events) = <<5, 10, 20, 80, 82, 85, 87, 90, 92, 95>>

\* the job met no exception and its flag was never set
Undisturbed == exc = NoExc /\ ~cancelled /\ ~certFailed

\* C29: run with an empty format collection, the worker does not fail on
\* the per-format increment: it loads the model, runs inference, writes no
\* file, ends its progress at 80 and emits finished with an empty list.
C29_EmptyRequest ==
    output_formats = << >> =>
        /\ written = << >>
        /\ created_files = << >>
        /\ (TranscribeReturned /\ PhaseRank(pc) >= 4) => exc = NoExc
        /\ (pc = "done" /\ Undisturbed) =>
               /\ loadCalls = 1
               /\ transcribeCalls = 1
               /\ Percentages(events) = <<5, 10, 20, 80>>
               /\ events[Len(events)] = Finished(<< >>)

\* an empty request has run to its finished event
C29_Witness ==
    /\ output_formats = << >>
    /\ pc = "done"
    /\ Undisturbed
    /\ transcribeCalls = 1
    /\ Count("finished") = 1

\* the request has an identifier the worker has no block for, or a repeated one
HasSkippedEntry(req) == Len(req) > 0 /\ ~ValidRequest(req)

\* C30: an identifier outside {txt, srt, vtt, html, md, json}, or a repeated
\* one, is silently skipped: no exception and no error event arise from it,
\* it counts in the divisor of the increment, and the job emits finished
\* with fewer artifacts than requested entries and a last progress below 95.
C30_SkippedEntries ==
    HasSkippedEntry(output_formats) =>
        /\ (PhaseRank(pc) = 4 /\ pc # "L146") => num_formats = Len(output_formats)
        /\ (Count("error") = 1 => excFrom \in { "import", "load", "retry", "transcribe", "write" })
        /\ (pc = "done" /\ Undisturbed) => Count("finished") = 1
        /\ Count("finished") = 1 =>
               LET ps == Percentages(events)
                   fs == events[Len(events)].files
               IN  /\ events[Len(events)].kind = "finished"
                   /\ fs = ExpectedOrder
                   /\ Len(fs) < Len(output_formats)
                   /\ ps[Len(ps)] < 95
                   /\ ps[Len(ps)] = (80 * Len(output_formats) + 15 * Len(fs))
                                        \div Len(output_formats)

\* a request with an unknown identifier next to a supported one has finished
C30_Witness ==
    /\ output_formats = << "pdf", "txt" >>
    /\ Count("finished") = 1
    /\ events[Len(events)].files = << "txt" >>
    /\ Percentages(events) = <<5, 10, 20, 80, 87>>

(* --------------------- claims: cancel and failure --------------------- *)

\* C31: when an except clause of run() finds the cancelled flag set as it
\* handles an exception of model load, inference or a file write, run()
\* returns at once with no event emitted for it, and a job whose exception
\* was met that way ends with zero terminal events.
C31_CancelledFailureIsSilent ==
    /\ []((suppressed /\ pc = "done") =>
            /\ cancelled
            /\ exc # NoExc
            /\ NumTerminal = 0)
    /\ [][(pc = "except" /\ cancelled /\ pc' # pc) =>
             (pc' = "done" /\ events' = events /\ suppressed')]_vars

\* a file write failed after cancel() and the job ended without an event
C31_Witness ==
    /\ pc = "done"
    /\ suppressed
    /\ excFrom = "write"
    /\ Len(written) = 1
    /\ NumTerminal = 0

\* C32: with the cancelled flag already set when run() begins, the worker
\* emits no event of any kind, never calls load_model or transcribe, and
\* writes no file.
C32_CancelledBeforeRun ==
    pcAtCancel = "L108" =>
        /\ events = << >>
        /\ loadCalls = 0
        /\ transcribeCalls = 0
        /\ written = << >>
        /\ pc \in { "L108", "L112", "except", "done" }

\* run() has returned from the check of line 112 with the flag set from the start
C32_Witness ==
    /\ pcAtCancel = "L108"
    /\ pc = "done"
    /\ exc = NoExc
    /\ events = << >>

(* --------------------- claims: window and cancel ---------------------- *)

\* C33: once clear_or_cancel has returned for a running job, no handler of
\* the window is run for that job any more: no step after that return is
\* the delivery of one of its queued events.
C33_NoHandlerAfterCancelReturns ==
    [][\A w \in cancel_returned : w \in handled' => w \in handled]_vars

(* -------------------- claims: cancel while writing -------------------- *)

\* the lines of the Writing Outputs phase up to the final check of line 208
WritingBeforeFinalCheck == { "L146", "L152", "L153", "L155", "L158", "L208" }

\* C34: a job cancelled during the Writing Outputs phase, up to the final
\* check, keeps the files it has written (nothing is removed), writes none
\* of the remaining formats once a check has read the flag (at most the
\* write in progress is completed), and emits no terminal event: also a
\* cancel after the last write and before the final check leaves every
\* requested artifact written and no finished event.
C34_CancelWhileWriting ==
    /\ [](pcAtCancel \in WritingBeforeFinalCheck =>
            /\ NumTerminal = 0
            /\ IsPrefix(written, ExpectedOrder)
            /\ Len(written) - writtenAtCancel <= (IF pcAtCancel = "L155" THEN 1 ELSE 0)
            /\ (pcAtCancel \in { "L153", "L208" } => pc \in { pcAtCancel, "done" }))
    /\ [][jobs' = jobs => IsPrefix(written, written')]_vars
    /\ [][(pc \in { "L153", "L208" } /\ cancelled /\ pc' # pc) =>
             (pc' = "done" /\ written' = written /\ events' = events)]_vars

\* cancel() after the last of two writes: both files written, no finished event
C34_Witness ==
    /\ pcAtCancel = "L158"
    /\ writtenAtCancel = 2
    /\ pc = "done"
    /\ written = ExpectedOrder
    /\ Len(written) = 2
    /\ NumTerminal = 0

====
